---- MODULE Spec2Model ----
(***************************************************************************)
(* RoCE GID cache (drivers/infiniband/core/roce_gid_cache.c) and its       *)
(* event-driven management (drivers/infiniband/core/roce_gid_mgmt.c).      *)
(*                                                                         *)
(* One ib_device with one Ethernet port is modelled; its table is `cache`  *)
(* (under SpecLife the device has phys_port_cnt ports and its tables are   *)
(* dev_cache).  The specifications share the variables:                    *)
(*   Spec      the cache operations called one after another (each call    *)
(*             is one step), with arbitrary arguments and arbitrary        *)
(*             modify_gid outcomes;                                        *)
(*   SpecRef   the add and delete calls of Spec beside reference sets;     *)
(*   SpecEvt   the notifier callbacks, the ordered work queue              *)
(*             roce_gid_mgmt_wq and the rescan work on system_wq, each     *)
(*             work handler being one step;                                *)
(*   SpecConc  the two work-queue threads and a lock-free reader, with     *)
(*             write_gid and the readers split at every memory access;     *)
(*   SpecLife  the add and remove callbacks of the ib_client               *)
(*             (allocation, activation, flush, release of the tables)      *)
(*             beside the notifier callbacks and the two workers;          *)
(*   SpecLive  SpecLife with the workers and the remove callback           *)
(*             scheduled fairly;                                           *)
(*   SpecSeq   many writes of one slot, so that its seq wraps around,      *)
(*             beside a reader;                                            *)
(*   SpecHold  Spec followed by the release of the table, with the         *)
(*             references to the net_devices counted;                      *)
(*   SpecRcu   a writer, a reader and the put_ndev callbacks of call_rcu.  *)
(***************************************************************************)
EXTENDS Integers, Sequences, FiniteSets, TLC

(***************************************************************************)
(* Bounds of the model.                                                    *)
(***************************************************************************)
\* table capacity (cache->sz) under Spec
TblSz == 2
\* writes after which Spec starts no further mutating call
MaxWrites == 4
\* table capacity (cache->sz) under SpecEvt
EvtTblSz == 4
\* notifier calls after which SpecEvt delivers no further event
MaxEvents == 2
\* handlers of SpecEvt, and write_gid calls of SpecConc, in which modify_gid fails
MaxFailures == 1
\* calls the reader of SpecConc makes
MaxReads == 1
\* ports of the device (ib_dev->phys_port_cnt) under SpecLife
phys_port_cnt == 2
\* notifier calls after which SpecLife delivers no further event
MaxLifeEvents == 2
\* the entries of rcu looked at: each of the two writes of SpecRcu begins one at most
MaxRcu == 2
\* the sequence counter is an unsigned int; the model keeps SeqBits bits of it
SeqBits == 6
\* table capacity (cache->sz) under SpecSeq
SeqTblSz == 1

(***************************************************************************)
(* Program constants.                                                      *)
(***************************************************************************)
EPERM == 1
EAGAIN == 11
ENOMEM == 12
EINVAL == 22
ENOSPC == 28
ENOSYS == 38
ENOENT == 2
\* enum ib_gid_type: IB_GID_TYPE_IB = 0, IB_GID_TYPE_ROCE_V2 = 1
IB_GID_TYPE_IB == 0
IB_GID_TYPE_ROCE_V2 == 1
IB_GID_TYPE_SIZE == 2
\* port capability flags, as bit numbers of port_cap_flags
IB_PORT_ROCE_V2 == 1
IB_PORT_ROCE == 2
\* 0xfe80: the link-local subnet prefix of a default gid
LinkLocalPrefix == 65152
\* 0xfffe: the filler addrconf_ifid_eui48 puts between the halves of the MAC
Eui48Filler == 65534
\* 0xffff: the marker of an IPv4-mapped address written by rdma_ip2gid
V4MappedMark == 65535
\* enum netdev reg_state
NETREG_REGISTERED == 1
NETREG_UNREGISTERING == 2
NETREG_UNREGISTERED == 3

\* enum gid_op_type
GID_DEL == 0
GID_ADD == 1

NULL == 0
AllOnes == -1

SeqMod == 2 ^ SeqBits
\* (unsigned int)-1, the sequence number of an entry being written
SeqInvalid == SeqMod - 1

(***************************************************************************)
(* Values.  A gid is <<subnet prefix, middle of the interface id, low part *)
(* of the interface id>>; an ib_gid_attr is [gid_type, ndev].              *)
(***************************************************************************)
zgid == <<0, 0, 0>>
zattr == [gid_type |-> 0, ndev |-> NULL]
roce_gid_type_msk == [gid_type |-> AllOnes, ndev |-> NULL]
roce_gid_type_netdev_msk == [gid_type |-> AllOnes, ndev |-> AllOnes]

\* a freshly kcalloc'ed ib_roce_gid_cache_entry
ZeroEntry == [seq |-> 0, gid |-> zgid, attr |-> zattr, context |-> NULL]

\* bitwise AND of two's-complement integers (the masks are 0 or all ones)
RECURSIVE BitAnd(_, _)
BitAnd(a, b) ==
    IF a = AllOnes THEN b
    ELSE IF b = AllOnes THEN a
    ELSE IF a = 0 \/ b = 0 THEN 0
    ELSE (a % 2) * (b % 2) + 2 * BitAnd(a \div 2, b \div 2)

\* rdma_ip2gid of an AF_INET address: ipv6_addr_set_v4mapped
ip4_to_gid(s_addr) == <<0, V4MappedMark, s_addr>>
\* rdma_ip2gid of an AF_INET6 address: the 128 bits are copied
ip6_to_gid(addr6) == addr6

\* make_default_gid: fe80::/64 followed by the EUI-64 made of the MAC
make_default_gid_of(mac) == <<LinkLocalPrefix, Eui48Filler, mac>>

(***************************************************************************)
(* State.                                                                  *)
(***************************************************************************)
VARIABLES
    cache,      \* the port's ib_roce_gid_cache: [sz, active, data_vec]
    dev_addr,   \* MAC address of every net_device
    last,       \* the latest call of a cache operation and its result
    story,      \* what the latest calls amount to, for the scenarios of the properties
    ref,        \* reference sets kept beside the table
    nwrites     \* write_gid calls made so far

VARIABLES
    reg_state,  \* ndev->reg_state of every net_device
    in4,        \* the IPv4 addresses of every net_device (in_dev->ifa_list)
    in6,        \* the IPv6 addresses of every net_device (in6_dev->addr_list)
    pattr,      \* what ib_query_port returns for the port: [err, port_cap_flags]
    wq,         \* roce_gid_mgmt_wq: the work items queued, oldest first
    sysq,       \* roce_rescan_devices work items pending on system_wq
    made_for,   \* for every slot, the net_device whose handling stored its entry
    e1_seen,    \* (net_device, gid) of the address-added events queued, not removed since
    unreg_done, \* the net_devices whose NETDEV_UNREGISTER work has been handled
    done,       \* the work item handled latest, and what its handler did
    nevents,    \* notifier calls so far
    nfail       \* handlers in which a modify_gid call failed so far

VARIABLES
    wk,         \* the worker of roce_gid_mgmt_wq: where it is in its handler, its locals
    sy,         \* the worker of system_wq that runs roce_rescan_devices, likewise
    rd,         \* a reader: where it is in roce_gid_cache_get_gid or in find_gid
    lock,       \* the owner of cache->lock
    rtnl,       \* the owner of the rtnl lock
    stored      \* for every slot, the (gid, attr) pairs completed writes stored in it

VARIABLES
    dev_cache,  \* ib_dev->cache.roce_gid_cache: NULL, or a pointer to a table for every port
    client,     \* the thread in the add or remove callback of the ib_client: where it is
    items       \* every work item allocated so far: its state, the reference it holds

VARIABLES
    refcnt,     \* for every net_device, the dev_hold calls of the cache less the dev_put
                \* calls it has made or handed to call_rcu
    rcu         \* the put_ndev callbacks call_rcu was given, not run yet, and the
                \* synchronize_rcu a writer waits in

apiVars == <<cache, dev_addr, last, story, ref, nwrites>>
netVars == <<reg_state, in4, in6, pattr>>
evtVars == <<wq, sysq, made_for, e1_seen, unreg_done, done, nevents, nfail>>
concVars == <<wk, sy, rd, lock, rtnl, stored>>
lifeVars == <<dev_cache, client, items>>
refVars == <<refcnt, rcu>>
vars == <<apiVars, netVars, evtVars, concVars, lifeVars, refVars>>

\* net_devices: 1 is the port's own interface (ib_dev->get_netdev), 2 a VLAN device on
\* top of it
NetDevs == {1, 2}
\* the net_devices the calls of Spec name
NDevs == {1}
\* the MAC addresses an interface can have
Macs == {1, 2}
\* IPv4 addresses (s_addr)
Ip4s == {1}
\* IPv6 addresses (global ones: none is the link-local address made of a MAC)
Ip6s == {<<8193, 0, 1>>}

Slots(c) == 0 .. (c.sz - 1)
Min(S) == CHOOSE x \in S : \A y \in S : x <= y

make_default_gid(ndev) == make_default_gid_of(dev_addr[ndev])

(***************************************************************************)
(* The sequence-number protocol, one memory access at a time.              *)
(***************************************************************************)
\* write_gid: ACCESS_ONCE(seq) = -1
wg_invalidate(e) == [e EXCEPT !.seq = SeqInvalid]
\* write_gid: modify_gid(ib_dev, port, ix, gid, attr, &data_vec[ix].context): the driver
\* leaves its handle of slot ix in context when it is given a gid to program, also when
\* it then fails, and NULL when it is given zgid
wg_modify_gid(e, ix, gid) == [e EXCEPT !.context = IF gid = zgid THEN NULL ELSE ix + 1]
\* write_gid: if (ret) context = NULL
wg_reset_context(e, ret) == [e EXCEPT !.context = IF ret # 0 THEN NULL ELSE @]
\* write_gid: memcpy of the gid (zgid when modify_gid failed)
wg_copy_gid(e, gid, ret) == [e EXCEPT !.gid = IF ret # 0 THEN zgid ELSE gid]
\* write_gid: memcpy of the attributes (zattr when modify_gid failed)
wg_copy_attr(e, attr, ret) == [e EXCEPT !.attr = IF ret # 0 THEN zattr ELSE attr]
\* write_gid: if (++orig_seq == (unsigned int)-1) orig_seq = 0; seq = orig_seq + 1
wg_next_seq(orig_seq) ==
    LET inc == (orig_seq + 1) % SeqMod
        kept == IF inc = SeqInvalid THEN 0 ELSE inc
    IN  (kept + 1) % SeqMod
wg_publish(e, orig_seq) == [e EXCEPT !.seq = wg_next_seq(orig_seq)]

\* find_gid on one entry: the comparisons between the two reads of seq
fg_type_ok(e_type, val, msk) ==
    msk.gid_type # 0 => e_type = BitAnd(val.gid_type, msk.gid_type)
fg_gid_ok(e_gid, gid) == e_gid = gid
\* the interface is left out of the comparison
fg_ndev_ok_loose(e_ndev, val, msk) == TRUE
fg_ndev_ok(e_ndev, val, msk) ==
    msk.ndev # NULL => e_ndev = BitAnd(msk.ndev, val.ndev)
\* the entry is a match: seq was valid, every comparison passed, seq is unchanged
fg_match(seq1, e_type, e_gid, e_ndev, seq2, gid, val, msk) ==
    /\ seq1 # SeqInvalid
    /\ fg_type_ok(e_type, val, msk)
    /\ fg_gid_ok(e_gid, gid)
    /\ fg_ndev_ok(e_ndev, val, msk)
    /\ seq1 = seq2

\* roce_gid_cache_get_gid after the range check: the two reads of seq around the copy
gg_result(seq1, l_gid, l_attr, seq2) ==
    IF seq1 = SeqInvalid \/ seq1 # seq2
    THEN [ret |-> -EAGAIN, gid |-> zgid, attr |-> zattr]
    ELSE [ret |-> 0, gid |-> l_gid, attr |-> l_attr]

(***************************************************************************)
(* The cache operations run to completion.  A run is threaded through a    *)
(* record m = [c, rets, ret, nwr, okw, refcnt]: the table, the outcomes of *)
(* the coming modify_gid calls, the return value, the number of write_gid  *)
(* calls made, the number of them whose modify_gid succeeded and the       *)
(* references of the cache to the net_devices.                             *)
(***************************************************************************)
Run(c, rets) == [c |-> c, rets |-> rets, ret |-> 0, nwr |-> 0, okw |-> 0,
                 refcnt |-> refcnt]

\* the reference to old_net_dev is kept
wg_put_old_never(h, old_net_dev, attr) == h
\* write_gid: the reference to old_net_dev is given up (call_rcu of put_ndev, or
\* synchronize_rcu and dev_put) when the slot had one and attr names another net_device
wg_put_old(h, old_net_dev, attr) ==
    IF old_net_dev # NULL /\ old_net_dev # attr.ndev
    THEN [h EXCEPT ![old_net_dev] = @ - 1] ELSE h
\* write_gid: dev_hold of the net_device copied into the slot when it is not the one the
\* slot had
wg_hold_new(h, old_net_dev, new_net_dev) ==
    IF new_net_dev # NULL /\ new_net_dev # old_net_dev
    THEN [h EXCEPT ![new_net_dev] = @ + 1] ELSE h
Return(m, r) == [m EXCEPT !.ret = r]

write_gid(m, ix, gid, attr) ==
    LET ret == Head(m.rets)
        e0 == m.c.data_vec[ix]
        e1 == wg_modify_gid(wg_invalidate(e0), ix, gid)
        e2 == wg_copy_gid(wg_reset_context(e1, ret), gid, ret)
        e3 == wg_copy_attr(e2, attr, ret)
        e4 == wg_publish(e3, e0.seq)
    IN  [m EXCEPT !.c.data_vec[ix] = e4,
                  !.refcnt = wg_hold_new(wg_put_old(m.refcnt, e0.attr.ndev, attr),
                                         e0.attr.ndev, e4.attr.ndev),
                  !.rets = Tail(m.rets),
                  !.ret = ret,
                  !.nwr = m.nwr + 1,
                  !.okw = m.okw + (IF ret = 0 THEN 1 ELSE 0)]

find_gid(c, gid, val, msk) ==
    LET hit == {i \in Slots(c) :
                  LET e == c.data_vec[i]
                  IN  fg_match(e.seq, e.attr.gid_type, e.gid, e.attr.ndev, e.seq,
                               gid, val, msk)}
    IN  IF hit = {} THEN -1 ELSE Min(hit)

\* the search for an entry of the same gid and type is left out
roce_add_gid_blind(m, gid, attr) ==
    IF ~m.c.active THEN Return(m, -ENOSYS)
    ELSE LET free == find_gid(m.c, zgid, zattr, zattr)
         IN  IF free < 0 THEN Return(m, -ENOSPC)
             ELSE Return(write_gid(m, free, gid, attr), 0)
\* ret is not set when no slot is free
roce_add_gid_noerr(m, gid, attr) ==
    IF ~m.c.active THEN Return(m, -ENOSYS)
    ELSE LET ix == find_gid(m.c, gid, attr, roce_gid_type_msk)
             free == find_gid(m.c, zgid, zattr, zattr)
         IN  IF ix >= 0 THEN Return(m, 0)
             ELSE IF free < 0 THEN Return(m, 0)
             ELSE Return(write_gid(m, free, gid, attr), 0)
roce_add_gid(m, gid, attr) ==
    IF ~m.c.active THEN Return(m, -ENOSYS)
    ELSE LET ix == find_gid(m.c, gid, attr, roce_gid_type_msk)
             free == find_gid(m.c, zgid, zattr, zattr)
         IN  IF ix >= 0 THEN Return(m, 0)
             ELSE IF free < 0 THEN Return(m, -ENOSPC)
             ELSE Return(write_gid(m, free, gid, attr), 0)

\* the entry is searched by gid and type only
roce_del_gid_by_type(m, gid, attr) ==
    IF ~m.c.active THEN Return(m, -ENOSYS)
    ELSE IF attr.ndev # NULL /\ gid = make_default_gid(attr.ndev)
    THEN Return(m, -EPERM)
    ELSE LET ix == find_gid(m.c, gid, attr, roce_gid_type_msk)
         IN  IF ix < 0 THEN Return(m, 0)
             ELSE Return(write_gid(m, ix, zgid, zattr), 0)
\* default gids are not protected
roce_del_gid_any(m, gid, attr) ==
    IF ~m.c.active THEN Return(m, -ENOSYS)
    ELSE LET ix == find_gid(m.c, gid, attr, roce_gid_type_netdev_msk)
         IN  IF ix < 0 THEN Return(m, 0)
             ELSE Return(write_gid(m, ix, zgid, zattr), 0)
roce_del_gid(m, gid, attr) ==
    IF ~m.c.active THEN Return(m, -ENOSYS)
    ELSE IF attr.ndev # NULL /\ gid = make_default_gid(attr.ndev)
    THEN Return(m, -EPERM)
    ELSE LET ix == find_gid(m.c, gid, attr, roce_gid_type_netdev_msk)
         IN  IF ix < 0 THEN Return(m, 0)
             ELSE Return(write_gid(m, ix, zgid, zattr), 0)

RECURSIVE del_all_from(_, _, _)
del_all_from(m, ix, ndev) ==
    IF ix >= m.c.sz THEN m
    ELSE IF m.c.data_vec[ix].attr.ndev = ndev
    THEN del_all_from(write_gid(m, ix, zgid, zattr), ix + 1, ndev)
    ELSE del_all_from(m, ix + 1, ndev)

roce_del_all_netdev_gids(m, ndev) ==
    IF ~m.c.active THEN Return(m, -ENOSYS)
    ELSE Return(del_all_from(m, 0, ndev), 0)

roce_gid_cache_get_gid(c, index) ==
    IF ~c.active THEN [ret |-> -ENOSYS, gid |-> zgid, attr |-> zattr]
    ELSE IF index < 0 \/ index >= c.sz
    THEN [ret |-> -EINVAL, gid |-> zgid, attr |-> zattr]
    ELSE LET e == c.data_vec[index]
         IN  gg_result(e.seq, e.gid, e.attr, e.seq)

\* bit i of an unsigned long
HasBit(mask, i) == (mask \div (2 ^ i)) % 2 = 1

\* the loop is left at the first write_gid that fails
RECURSIVE set_default_from_break(_, _, _, _, _)
set_default_from_break(m, i, success, ndev, gid_type_mask) ==
    IF i >= IB_GID_TYPE_SIZE THEN m
    ELSE IF ~HasBit(gid_type_mask, i)
    THEN set_default_from_break(m, i + 1, success, ndev, gid_type_mask)
    ELSE LET m1 == write_gid(m, success, zgid, zattr)
             m2 == write_gid(m1, success, make_default_gid(ndev),
                             [gid_type |-> i, ndev |-> ndev])
         IN  IF m1.ret # 0 THEN m1
             ELSE IF m2.ret # 0 THEN m2
             ELSE set_default_from_break(m2, i + 1, success + 1, ndev, gid_type_mask)

RECURSIVE set_default_from(_, _, _, _, _)
set_default_from(m, i, success, ndev, gid_type_mask) ==
    IF i >= IB_GID_TYPE_SIZE THEN m
    ELSE IF ~HasBit(gid_type_mask, i)
    THEN set_default_from(m, i + 1, success, ndev, gid_type_mask)
    ELSE LET m1 == write_gid(m, success, zgid, zattr)
             m2 == write_gid(m1, success, make_default_gid(ndev),
                             [gid_type |-> i, ndev |-> ndev])
         IN  IF m1.ret # 0
             THEN set_default_from(m1, i + 1, success, ndev, gid_type_mask)
             ELSE IF m2.ret # 0
             THEN set_default_from(m2, i + 1, success, ndev, gid_type_mask)
             ELSE set_default_from(m2, i + 1, success + 1, ndev, gid_type_mask)

\* returns void; neither the active flag nor the lock is looked at
roce_gid_cache_set_default_gid(m, ndev, gid_type_mask) ==
    Return(set_default_from(m, 0, 0, ndev, gid_type_mask), 0)

\* roce_gid_cache_find_gid on the one port of the device
roce_gid_cache_find_gid(c, gid, gid_type) ==
    IF ~c.active THEN [ret |-> -ENOENT, index |-> 0]
    ELSE LET local_index == find_gid(c, gid, [gid_type |-> gid_type, ndev |-> NULL],
                                     roce_gid_type_msk)
         IN  IF local_index >= 0 THEN [ret |-> 0, index |-> local_index]
             ELSE [ret |-> -ENOENT, index |-> 0]

(***************************************************************************)
(* Spec: the cache operations as calls.                                    *)
(***************************************************************************)
\* what modify_gid of the driver can return
ModifyRets == {0, -ENOMEM}
RetSeqs(n) == [1 .. n -> ModifyRets]
GidTypes == 0 .. (IB_GID_TYPE_SIZE - 1)
\* gid type masks with at least one type
TypeMasks == 1 .. (2 ^ IB_GID_TYPE_SIZE - 1)

ApiGids == {ip4_to_gid(a) : a \in Ip4s} \cup {make_default_gid(n) : n \in NDevs}
ApiAttrs == [gid_type : GidTypes, ndev : {NULL} \cup NDevs]

NoOut == [ret |-> 0, gid |-> zgid, attr |-> zattr]
NoCall == [op |-> "none", ret |-> 0, nwr |-> 0, okw |-> 0, out |-> NoOut]
\* story: tag names the scenario the latest calls complete; gid and attr are the
\* arguments of the latest call when it was an add, attr.ndev the interface of the latest
\* set_default or del_all; run counts the add calls so far when they were all of
\* different (gid, type) and all returned success (-1 otherwise), run_ok likewise with
\* modify_gid succeeding in each; seen holds their (gid, type)
NoStory == [tag |-> "none", gid |-> zgid, attr |-> zattr, run |-> -1, run_ok |-> -1,
            seen |-> {}]
Scenario(st, op, gid, attr, m) ==
    IF op = "add" /\ m.ret = -ENOSPC /\ st.run_ok = m.c.sz THEN "refused"
    ELSE IF op = "del" /\ m.nwr = 1 /\ st.tag = "refused" THEN "freed"
    ELSE IF op = "add" /\ m.okw = 1 /\ st.tag = "freed" THEN "refilled"
    ELSE IF op = "add" /\ m.okw = 1 THEN "stored"
    ELSE IF /\ op = "add" /\ m.ret = 0 /\ m.nwr = 0
            /\ st.tag = "stored" /\ gid = st.gid /\ attr = st.attr THEN "repeated"
    ELSE IF op = "set_default" /\ m.okw >= 2 THEN "default_set"
    ELSE IF /\ op = "del" /\ m.ret = -EPERM
            /\ st.tag = "default_set" /\ attr.ndev = st.attr.ndev THEN "default_kept"
    ELSE IF /\ op = "del_all" /\ m.nwr >= 1
            /\ st.tag = "default_kept" /\ attr.ndev = st.attr.ndev THEN "default_cleared"
    ELSE "none"
Streak(run, st, op, gid, attr, m, ok) ==
    IF op = "add" /\ run >= 0 /\ m.ret = 0 /\ ok /\ <<gid, attr.gid_type>> \notin st.seen
    THEN run + 1 ELSE -1
Story(st, op, gid, attr, m) ==
    LET run == Streak(st.run, st, op, gid, attr, m, TRUE)
    IN  [tag |-> Scenario(st, op, gid, attr, m),
         gid |-> IF op = "add" THEN gid ELSE zgid,
         attr |-> IF op \in {"add", "set_default", "del_all"} THEN attr
                  ELSE IF op = "del" /\ m.ret = -EPERM THEN st.attr ELSE zattr,
         run |-> run,
         run_ok |-> Streak(st.run_ok, st, op, gid, attr, m, m.okw = 1),
         seen |-> IF run < 0 THEN {} ELSE st.seen \cup {<<gid, attr.gid_type>>}]

EmptyCache(sz) == [sz |-> sz, active |-> TRUE, data_vec |-> [i \in 0 .. (sz - 1) |-> ZeroEntry]]

\* the port reports both RoCE capabilities
BothKinds == [err |-> 0, port_cap_flags |-> {IB_PORT_ROCE_V2, IB_PORT_ROCE}]
\* no work item: the shape of the work items and of `done`
NoWork == [kind |-> "none", cmds |-> <<>>, gid_op |-> GID_DEL,
           gid |-> zgid, ndev |-> NULL, follows_add |-> FALSE]
NoneDone == [work |-> NoWork, pre_empty |-> FALSE, nwr |-> 0, okw |-> 0]

\* a thread that writes the table: pc is where it is, work the work item it handles,
\* i and success the loop variables of update_gid and of
\* roce_gid_cache_set_default_gid, ix, gid, attr, orig_seq and ret the arguments and
\* locals of the write_gid it is in, events the IB_EVENT_GID_CHANGE events that
\* write_gid has dispatched, then where it goes on after write_gid; readers are the
\* reads of slot ix that were in progress when this write_gid stored seq = -1
IdleWriter == [pc |-> "idle", work |-> NoWork, i |-> 0, success |-> 0, ix |-> 0,
               gid |-> zgid, attr |-> zattr, orig_seq |-> 0, ret |-> 0, events |-> 0,
               readers |-> {}, then |-> "idle"]
\* a reader: op is the call it makes and n the calls it has made; index, gid and gid_type
\* are the arguments, i the slot find_gid looks at, orig_seq, l_gid, l_attr the locals
\* (the fields find_gid compared are kept in l_gid and l_attr), ret and out the results
IdleReader == [pc |-> "idle", op |-> "none", n |-> 0, index |-> 0, gid |-> zgid,
               gid_type |-> 0, i |-> 0, orig_seq |-> 0, l_gid |-> zgid, l_attr |-> zattr,
               ret |-> 0, out |-> 0]

\* no thread is running: the steps of Spec, SpecRef and SpecEvt are whole calls
NoThreads ==
    /\ wk = IdleWriter
    /\ sy = IdleWriter
    /\ rd = IdleReader
    /\ lock = "none"
    /\ rtnl = "none"
    /\ stored = [i \in 0 .. (TblSz - 1) |-> {<<zgid, zattr>>}]

\* the life of the device is not followed: the port's table is there and active
NoDevice ==
    /\ dev_cache = <<>>
    /\ client = [pc |-> "attached", cfg |-> [modify_gid |-> TRUE, fail |-> 0], wait |-> {}]
    /\ items = <<>>

\* the cache holds no reference to a net_device
NoRefs ==
    /\ refcnt = [n \in NetDevs |-> 0]
    /\ rcu = <<>>

\* no event source is connected: Spec and SpecRef call the cache directly
NoEvents ==
    /\ reg_state = [n \in NetDevs |-> NETREG_REGISTERED]
    /\ in4 = [n \in NetDevs |-> {}]
    /\ in6 = [n \in NetDevs |-> {}]
    /\ pattr = BothKinds
    /\ wq = <<>>
    /\ sysq = 0
    /\ made_for = [i \in 0 .. (TblSz - 1) |-> NULL]
    /\ e1_seen = {}
    /\ unreg_done = {}
    /\ done = NoneDone
    /\ nevents = 0
    /\ nfail = 0

Init ==
    /\ NoEvents
    /\ NoThreads
    /\ NoDevice
    /\ NoRefs
    /\ cache = EmptyCache(TblSz)
    /\ dev_addr = [n \in NetDevs |-> 1]
    /\ last = NoCall
    /\ story = [NoStory EXCEPT !.run = 0, !.run_ok = 0]
    /\ ref = [orig |-> {}, exact |-> {}]
    /\ nwrites = 0

Called(op, m, out) ==
    /\ last' = [op |-> op, ret |-> m.ret, nwr |-> m.nwr, okw |-> m.okw, out |-> out]
    /\ cache' = m.c
    /\ nwrites' = nwrites + m.nwr
    /\ refcnt' = m.refcnt
    /\ UNCHANGED <<dev_addr, netVars, evtVars, concVars, lifeVars, rcu>>

\* the bookkeeping of Spec
Told(op, gid, attr, m) ==
    /\ story' = Story(story, op, gid, attr, m)
    /\ UNCHANGED ref

\* the number of write_gid calls a run makes when every modify_gid succeeds
Writes(m) == m.nwr
AllOk(n) == [i \in 1 .. n |-> 0]
\* the outcomes of the modify_gid calls of a run that makes up to n of them
Outcomes(n) == UNION {RetSeqs(k) : k \in 0 .. n}
\* rets has one outcome for every modify_gid call the run can make, and the run fits
\* in the writes the model still allows
Fits(rets, m) == Len(rets) = Writes(m) /\ nwrites + Writes(m) <= MaxWrites

AddRun(gid, attr, rets) == roce_add_gid(Run(cache, rets), gid, attr)
DelRun(gid, attr, rets) == roce_del_gid(Run(cache, rets), gid, attr)
DelAllRun(ndev, rets) == roce_del_all_netdev_gids(Run(cache, rets), ndev)
SetDefaultRun(ndev, gid_type_mask, rets) ==
    roce_gid_cache_set_default_gid(Run(cache, rets), ndev, gid_type_mask)

Add(gid, attr, rets) ==
    /\ Fits(rets, AddRun(gid, attr, AllOk(1)))
    /\ Called("add", AddRun(gid, attr, rets), NoOut)
    /\ Told("add", gid, attr, AddRun(gid, attr, rets))

Del(gid, attr, rets) ==
    /\ Fits(rets, DelRun(gid, attr, AllOk(1)))
    /\ Called("del", DelRun(gid, attr, rets), NoOut)
    /\ Told("del", gid, attr, DelRun(gid, attr, rets))

DelAll(ndev, rets) ==
    /\ Fits(rets, DelAllRun(ndev, AllOk(cache.sz)))
    /\ Called("del_all", DelAllRun(ndev, rets), NoOut)
    /\ Told("del_all", zgid, [gid_type |-> 0, ndev |-> ndev], DelAllRun(ndev, rets))

SetDefault(ndev, gid_type_mask, rets) ==
    /\ Fits(rets, SetDefaultRun(ndev, gid_type_mask, AllOk(2 * IB_GID_TYPE_SIZE)))
    /\ Called("set_default", SetDefaultRun(ndev, gid_type_mask, rets), NoOut)
    /\ Told("set_default", zgid, [gid_type |-> 0, ndev |-> ndev],
            SetDefaultRun(ndev, gid_type_mask, rets))

Next ==
    \/ \E gid \in ApiGids, attr \in ApiAttrs, rets \in Outcomes(1) : Add(gid, attr, rets)
    \/ \E gid \in ApiGids, attr \in ApiAttrs, rets \in Outcomes(1) : Del(gid, attr, rets)
    \/ \E ndev \in NDevs, rets \in Outcomes(cache.sz) : DelAll(ndev, rets)
    \/ \E ndev \in NDevs, mask \in TypeMasks, rets \in Outcomes(2 * IB_GID_TYPE_SIZE) :
         SetDefault(ndev, mask, rets)

Spec == Init /\ [][Next]_vars

(***************************************************************************)
(* SpecRef: add and delete calls only, beside two reference sets.          *)
(*   ref.orig   pairs (gid, type): an add that returns success inserts     *)
(*              its pair, a delete that returns success removes it;        *)
(*   ref.exact  triples (gid, type, ndev): an add inserts its triple when  *)
(*              it returns success, modify_gid succeeded and no triple of  *)
(*              the same (gid, type) is present; a delete that returns     *)
(*              success removes exactly its triple.                        *)
(***************************************************************************)
RefAdd(gid, attr, rets) ==
    /\ Fits(rets, AddRun(gid, attr, AllOk(1)))
    /\ Called("add", AddRun(gid, attr, rets), NoOut)
    /\ LET m == AddRun(gid, attr, rets)
           key == <<gid, attr.gid_type>>
       IN  ref' = [orig |-> IF m.ret = 0 THEN ref.orig \cup {key} ELSE ref.orig,
                   exact |-> IF /\ m.ret = 0
                                /\ (rets = <<>> \/ Head(rets) = 0)
                                /\ ~\E t \in ref.exact : <<t[1], t[2]>> = key
                             THEN ref.exact \cup {<<gid, attr.gid_type, attr.ndev>>}
                             ELSE ref.exact]
    /\ UNCHANGED story

RefDel(gid, attr, rets) ==
    /\ Fits(rets, DelRun(gid, attr, AllOk(1)))
    /\ Called("del", DelRun(gid, attr, rets), NoOut)
    /\ LET m == DelRun(gid, attr, rets)
       IN  ref' = [orig |-> IF m.ret = 0 THEN ref.orig \ {<<gid, attr.gid_type>>}
                            ELSE ref.orig,
                   exact |-> IF m.ret = 0
                             THEN ref.exact \ {<<gid, attr.gid_type, attr.ndev>>}
                             ELSE ref.exact]
    /\ UNCHANGED story

NextRef ==
    \/ \E gid \in ApiGids, attr \in ApiAttrs, rets \in Outcomes(1) : RefAdd(gid, attr, rets)
    \/ \E gid \in ApiGids, attr \in ApiAttrs, rets \in Outcomes(1) : RefDel(gid, attr, rets)

SpecRef == Init /\ [][NextRef]_vars

(***************************************************************************)
(* SpecEvt: the notifier callbacks queue work items on roce_gid_mgmt_wq,   *)
(* an ordered work queue whose worker handles them one at a time, oldest   *)
(* first; roce_rescan_devices runs on system_wq.  A handler is one step.   *)
(***************************************************************************)
\* ib_dev->get_netdev(ib_dev, port)
port_netdev == 1
\* rdma_vlan_dev_real_dev: the device under a VLAN device, NULL for any other device
rdma_vlan_dev_real_dev(ndev) == IF ndev = 2 THEN 1 ELSE NULL
\* netdev_master_upper_dev_get: no interface is enslaved to a bond or a bridge
netdev_master_upper_dev_get(idev) == NULL

PORT_CAP_TO_GID_TYPE ==
    <<[flag_mask |-> IB_PORT_ROCE_V2, gid_type |-> IB_GID_TYPE_ROCE_V2],
      [flag_mask |-> IB_PORT_ROCE, gid_type |-> IB_GID_TYPE_IB]>>

\* the bitwise OR of 1UL << t over the types t of S
RECURSIVE MaskOf(_)
MaskOf(S) == IF S = {} THEN 0 ELSE LET t == Min(S) IN 2 ^ t + MaskOf(S \ {t})

gid_type_mask_support(pa) ==
    IF pa.err # 0 THEN 0
    ELSE MaskOf({PORT_CAP_TO_GID_TYPE[i].gid_type :
                    i \in {k \in DOMAIN PORT_CAP_TO_GID_TYPE :
                             PORT_CAP_TO_GID_TYPE[k].flag_mask \in pa.port_cap_flags}})

\* the loop stops one gid type early
RECURSIVE update_gid_short(_, _, _, _, _)
update_gid_short(m, i, gid_op, gid, gid_attr) ==
    IF i >= IB_GID_TYPE_SIZE - 1 THEN m
    ELSE IF ~HasBit(gid_type_mask_support(pattr), i)
    THEN update_gid_short(m, i + 1, gid_op, gid, gid_attr)
    ELSE LET attr == [gid_attr EXCEPT !.gid_type = i]
         IN  update_gid_short(IF gid_op = GID_ADD THEN roce_add_gid(m, gid, attr)
                              ELSE roce_del_gid(m, gid, attr),
                              i + 1, gid_op, gid, attr)
\* update_gid from gid type i on
RECURSIVE update_gid_from(_, _, _, _, _)
update_gid_from(m, i, gid_op, gid, gid_attr) ==
    IF i >= IB_GID_TYPE_SIZE THEN m
    ELSE IF ~HasBit(gid_type_mask_support(pattr), i)
    THEN update_gid_from(m, i + 1, gid_op, gid, gid_attr)
    ELSE LET attr == [gid_attr EXCEPT !.gid_type = i]
         IN  update_gid_from(IF gid_op = GID_ADD THEN roce_add_gid(m, gid, attr)
                             ELSE roce_del_gid(m, gid, attr),
                             i + 1, gid_op, gid, attr)
update_gid(m, gid_op, gid, gid_attr) == update_gid_from(m, 0, gid_op, gid, gid_attr)

is_eth_port_of_netdev(ndev) ==
    LET idev == port_netdev
        mdev == netdev_master_upper_dev_get(idev)
        rdev == rdma_vlan_dev_real_dev(ndev)
    IN  IF idev = NULL THEN FALSE
        ELSE (IF rdev # NULL THEN rdev ELSE ndev) = (IF mdev # NULL THEN mdev ELSE idev)
pass_all_filter(ndev) == TRUE

\* gid_attr is zeroed and the net_device is not put into it
update_gid_ip(m, gid_op, ndev, s_addr) ==
    update_gid(m, gid_op, ip4_to_gid(s_addr), [gid_type |-> 0, ndev |-> NULL])

enum_netdev_default_gids(m, ndev) ==
    IF port_netdev # ndev THEN m
    ELSE roce_gid_cache_set_default_gid(m, ndev, gid_type_mask_support(pattr))

\* for_ifa over the addresses left, lowest first
RECURSIVE for_ifa(_, _, _)
for_ifa(m, ndev, ifa_list) ==
    IF ifa_list = {} THEN m
    ELSE LET ifa == Min(ifa_list)
         IN  for_ifa(update_gid_ip(m, GID_ADD, ndev, ifa), ndev, ifa_list \ {ifa})
enum_netdev_ipv4_ips(m, ndev) ==
    IF reg_state[ndev] >= NETREG_UNREGISTERING THEN m
    ELSE for_ifa(m, ndev, in4[ndev])

\* the work items made by the notifier callbacks and by queue_update_gid_work
NetdevWork(cmds, ndev) ==
    [NoWork EXCEPT !.kind = "netdev_event_work", !.cmds = cmds, !.ndev = ndev]
AddrWork(gid_op, gid, ndev, follows_add) ==
    [NoWork EXCEPT !.kind = "update_gid_event_work", !.gid_op = gid_op, !.gid = gid,
                   !.ndev = ndev, !.follows_add = follows_add]
GidWork(gid_op, gid, ndev) ==
    [NoWork EXCEPT !.kind = "update_gid_work", !.gid_op = gid_op, !.gid = gid,
                   !.ndev = ndev]

\* the work items queue_update_gid_work queues for one address; alloc_ok is the outcome
\* of kmalloc
queue_update_gid_work(c, gid_op, ndev, addr6, alloc_ok) ==
    IF ~c.active THEN <<>>
    ELSE IF ~alloc_ok THEN <<>>
    ELSE <<GidWork(gid_op, ip6_to_gid(addr6), ndev)>>

\* list_for_each_entry over the addresses left
RECURSIVE list_for_each_entry(_, _, _, _)
list_for_each_entry(c, ndev, addr_list, alloc_ok) ==
    IF addr_list = {} THEN <<>>
    ELSE LET ifp == CHOOSE a \in addr_list : TRUE
         IN  queue_update_gid_work(c, GID_ADD, ndev, ifp, alloc_ok)
             \o list_for_each_entry(c, ndev, addr_list \ {ifp}, alloc_ok)
enum_netdev_ipv6_ips(c, ndev, alloc_ok) ==
    IF reg_state[ndev] >= NETREG_UNREGISTERING THEN <<>>
    ELSE list_for_each_entry(c, ndev, in6[ndev], alloc_ok)

\* add_netdev_ips: what it does to the table, and what it queues
add_netdev_ips(m, ndev) == enum_netdev_ipv4_ips(enum_netdev_default_gids(m, ndev), ndev)
add_netdev_ips_queued(c, ndev, alloc_ok) == enum_netdev_ipv6_ips(c, ndev, alloc_ok)
del_netdev_ips(m, ndev) == roce_del_all_netdev_gids(m, ndev)

add_cmd == [cb |-> "add_netdev_ips", filter |-> "is_eth_port_of_netdev"]
del_cmd == [cb |-> "del_netdev_ips", filter |-> "pass_all_filter"]

\* ib_enum_roce_ports_of_netdev over the one Ethernet port: whether cmd.cb is called
PortPasses(cmd, ndev) ==
    IF cmd.filter = "is_eth_port_of_netdev" THEN is_eth_port_of_netdev(ndev)
    ELSE pass_all_filter(ndev)
ib_enum_roce_ports_of_netdev(m, ndev, cmd) ==
    IF ~PortPasses(cmd, ndev) THEN m
    ELSE IF cmd.cb = "add_netdev_ips" THEN add_netdev_ips(m, ndev)
    ELSE del_netdev_ips(m, ndev)

\* the slots a handler run for ndev wrote are its own from then on
Credit(own, c0, c1, ndev) ==
    [i \in DOMAIN own |->
        IF c1.data_vec[i] = c0.data_vec[i] THEN own[i]
        ELSE IF c1.data_vec[i].gid = zgid THEN NULL ELSE ndev]

\* the handlers, as runs over the table
RECURSIVE netdev_cmds_from(_, _, _)
netdev_cmds_from(m, work, i) ==
    IF i > Len(work.cmds) THEN m
    ELSE netdev_cmds_from(ib_enum_roce_ports_of_netdev(m, work.ndev, work.cmds[i]),
                          work, i + 1)
netdevice_event_work_handler(m, work) == netdev_cmds_from(m, work, 1)
\* what the add_netdev_ips of the commands queue
RECURSIVE netdev_cmds_queued(_, _, _, _)
netdev_cmds_queued(c, work, i, alloc_ok) ==
    IF i > Len(work.cmds) THEN <<>>
    ELSE (IF work.cmds[i].cb = "add_netdev_ips" /\ PortPasses(work.cmds[i], work.ndev)
          THEN add_netdev_ips_queued(c, work.ndev, alloc_ok) ELSE <<>>)
         \o netdev_cmds_queued(c, work, i + 1, alloc_ok)

callback_for_addr_gid_device_scan(m, parsed) ==
    update_gid(m, parsed.gid_op, parsed.gid, [gid_type |-> 0, ndev |-> parsed.ndev])
update_gid_event_work_handler(m, work) ==
    IF is_eth_port_of_netdev(work.ndev)
    THEN callback_for_addr_gid_device_scan(m, work) ELSE m

update_gid_work_handler(m, work) ==
    update_gid(m, work.gid_op, work.gid, [gid_type |-> 0, ndev |-> work.ndev])

\* enum_all_gids over the net_devices left, lowest first; r = [m, own, queued]
RECURSIVE for_each_netdev(_, _, _)
for_each_netdev(r, ndevs, alloc_ok) ==
    IF ndevs = {} THEN r
    ELSE LET ndev == Min(ndevs)
             m1 == ib_enum_roce_ports_of_netdev(r.m, ndev, add_cmd)
         IN  for_each_netdev(
                 [m |-> m1,
                  own |-> Credit(r.own, r.m.c, m1.c, ndev),
                  queued |-> r.queued \o
                             (IF PortPasses(add_cmd, ndev)
                              THEN add_netdev_ips_queued(m1.c, ndev, alloc_ok)
                              ELSE <<>>)],
                 ndevs \ {ndev}, alloc_ok)
\* the interfaces on the list of the namespace
Listed == {n \in NetDevs : reg_state[n] = NETREG_REGISTERED}
enum_all_gids(m, alloc_ok) ==
    for_each_netdev([m |-> m, own |-> made_for, queued |-> <<>>], Listed, alloc_ok)
roce_rescan_devices(m, alloc_ok) == enum_all_gids(m, alloc_ok)

\* the notifier callbacks: the work items they queue
netdevice_event(event, ndev, reg, alloc_ok) ==
    LET cmds == IF event \in {"NETDEV_REGISTER", "NETDEV_UP"} THEN <<add_cmd>>
                ELSE IF event = "NETDEV_UNREGISTER"
                THEN (IF reg[ndev] < NETREG_UNREGISTERED THEN <<del_cmd>> ELSE <<>>)
                ELSE IF event = "NETDEV_CHANGEADDR" THEN <<del_cmd, add_cmd>>
                ELSE <<>>
    IN  IF cmds = <<>> THEN <<>>
        ELSE IF ~alloc_ok THEN <<>>
        ELSE <<NetdevWork(cmds, ndev)>>

addr_event(event, ndev, sa_family, addr, alloc_ok, follows_add) ==
    IF sa_family \notin {"AF_INET", "AF_INET6"} THEN <<>>
    ELSE IF event \notin {"NETDEV_UP", "NETDEV_DOWN"} THEN <<>>
    ELSE IF ~alloc_ok THEN <<>>
    ELSE <<AddrWork(IF event = "NETDEV_UP" THEN GID_ADD ELSE GID_DEL,
                    IF sa_family = "AF_INET" THEN ip4_to_gid(addr) ELSE ip6_to_gid(addr),
                    ndev, follows_add)>>
inetaddr_event(event, ndev, s_addr, alloc_ok, follows_add) ==
    addr_event(event, ndev, "AF_INET", s_addr, alloc_ok, follows_add)
inet6addr_event(event, ndev, addr6, alloc_ok, follows_add) ==
    addr_event(event, ndev, "AF_INET6", addr6, alloc_ok, follows_add)

\* modify_gid fails in the k-th write_gid of a handler (in none when k = 0)
RunWrites == EvtTblSz + 2 * IB_GID_TYPE_SIZE * (1 + Cardinality(Ip4s)) * Cardinality(NetDevs)
FailAt(k) == [i \in 1 .. RunWrites |-> IF i = k THEN -ENOMEM ELSE 0]
\* the write_gid calls of a handler in which modify_gid can fail: n is their number when
\* none fails
FailPoints(n) == IF nfail < MaxFailures THEN 0 .. n ELSE {0}

PortAttrs ==
    {BothKinds,
     [err |-> 0, port_cap_flags |-> {IB_PORT_ROCE}]}
\* every address is on one interface at most
OnePlace(lists) == \A n1, n2 \in NetDevs : n1 # n2 => lists[n1] \cap lists[n2] = {}

\* roce_gid_cache_client_setup_one has set the table active and scheduled the rescan
InitEvt ==
    /\ NoThreads
    /\ NoDevice
    /\ NoRefs
    /\ cache = EmptyCache(EvtTblSz)
    /\ dev_addr = [n \in NetDevs |-> 1]
    /\ last = NoCall
    /\ story = NoStory
    /\ ref = [orig |-> {}, exact |-> {}]
    /\ nwrites = 0
    /\ reg_state = [n \in NetDevs |-> NETREG_REGISTERED]
    /\ in4 \in {l \in [NetDevs -> SUBSET Ip4s] : OnePlace(l)}
    /\ in6 = [n \in NetDevs |-> {}]
    /\ pattr \in PortAttrs
    /\ wq = <<>>
    /\ sysq = 1
    /\ made_for = [i \in 0 .. (EvtTblSz - 1) |-> NULL]
    /\ e1_seen = {}
    /\ unreg_done = {}
    /\ done = NoneDone
    /\ nevents = 0
    /\ nfail = 0

IsEmpty(c) == \A i \in Slots(c) : c.data_vec[i].gid = zgid /\ c.data_vec[i].attr = zattr

\* a notifier callback has run
Notified(queued) ==
    /\ nevents < MaxEvents
    /\ nevents' = nevents + 1
    /\ wq' = wq \o queued
    /\ UNCHANGED <<cache, last, story, ref, nwrites, pattr, sysq, made_for, unreg_done,
                   done, nfail, concVars, lifeVars, refVars>>

\* NETDEV_REGISTER, NETDEV_UP or an event the callback ignores, for a registered interface
NetdevNotify(event, ndev, alloc_ok) ==
    /\ reg_state[ndev] = NETREG_REGISTERED
    /\ Notified(netdevice_event(event, ndev, reg_state, alloc_ok))
    /\ UNCHANGED <<dev_addr, reg_state, in4, in6, e1_seen>>

\* unregister_netdevice takes the interface off the list and notifies
NetdevUnregister(ndev, alloc_ok) ==
    /\ reg_state[ndev] = NETREG_REGISTERED
    /\ reg_state' = [reg_state EXCEPT ![ndev] = NETREG_UNREGISTERING]
    /\ Notified(netdevice_event("NETDEV_UNREGISTER", ndev, reg_state', alloc_ok))
    /\ UNCHANGED <<dev_addr, in4, in6, e1_seen>>

\* netdev_run_todo: the interface is unregistered; NETDEV_UNREGISTER is sent again
\* while references to the interface are left
NetdevRunTodo(ndev, alloc_ok) ==
    /\ reg_state[ndev] = NETREG_UNREGISTERING
    /\ reg_state' = [reg_state EXCEPT ![ndev] = NETREG_UNREGISTERED]
    /\ Notified(netdevice_event("NETDEV_UNREGISTER", ndev, reg_state', alloc_ok))
    /\ UNCHANGED <<dev_addr, in4, in6, e1_seen>>

\* the MAC address of an interface is changed
NetdevChangeAddr(ndev, mac, alloc_ok) ==
    /\ reg_state[ndev] = NETREG_REGISTERED
    /\ mac # dev_addr[ndev]
    /\ dev_addr' = [dev_addr EXCEPT ![ndev] = mac]
    /\ Notified(netdevice_event("NETDEV_CHANGEADDR", ndev, reg_state, alloc_ok))
    /\ UNCHANGED <<reg_state, in4, in6, e1_seen>>

\* an address is put on (NETDEV_UP) or taken off (NETDEV_DOWN) an interface
AddrChange(lists, event, ndev, addr) ==
    IF event = "NETDEV_UP" THEN [lists EXCEPT ![ndev] = @ \cup {addr}]
    ELSE [lists EXCEPT ![ndev] = @ \ {addr}]
AddrMay(lists, event, ndev, addr) ==
    IF event = "NETDEV_UP"
    THEN reg_state[ndev] = NETREG_REGISTERED /\ \A n \in NetDevs : addr \notin lists[n]
    ELSE reg_state[ndev] < NETREG_UNREGISTERED /\ addr \in lists[ndev]
Seen(event, ndev, gid, alloc_ok) ==
    IF event = "NETDEV_UP" /\ alloc_ok THEN e1_seen \cup {<<ndev, gid>>}
    ELSE e1_seen \ {<<ndev, gid>>}

InetAddr(event, ndev, s_addr, alloc_ok) ==
    /\ AddrMay(in4, event, ndev, s_addr)
    /\ in4' = AddrChange(in4, event, ndev, s_addr)
    /\ e1_seen' = Seen(event, ndev, ip4_to_gid(s_addr), alloc_ok)
    /\ Notified(inetaddr_event(event, ndev, s_addr, alloc_ok,
                               <<ndev, ip4_to_gid(s_addr)>> \in e1_seen))
    /\ UNCHANGED <<dev_addr, reg_state, in6>>

Inet6Addr(event, ndev, addr6, alloc_ok) ==
    /\ AddrMay(in6, event, ndev, addr6)
    /\ in6' = AddrChange(in6, event, ndev, addr6)
    /\ e1_seen' = Seen(event, ndev, ip6_to_gid(addr6), alloc_ok)
    /\ Notified(inet6addr_event(event, ndev, addr6, alloc_ok,
                                <<ndev, ip6_to_gid(addr6)>> \in e1_seen))
    /\ UNCHANGED <<dev_addr, reg_state, in4>>

\* a handler has run: m is its run, own the slots' owners after it
Handled(work, m, own) ==
    /\ nfail' = IF m.okw = m.nwr THEN nfail ELSE nfail + 1
    /\ cache' = m.c
    /\ made_for' = own
    /\ done' = [work |-> work, pre_empty |-> IsEmpty(cache), nwr |-> m.nwr, okw |-> m.okw]
    /\ unreg_done' = IF work.cmds = <<del_cmd>> THEN unreg_done \cup {work.ndev}
                     ELSE unreg_done
    /\ UNCHANGED <<dev_addr, last, story, ref, nwrites, netVars, e1_seen, nevents,
                   concVars, lifeVars, refVars>>

\* the worker of roce_gid_mgmt_wq handles the oldest work item
RunNetdevWork(alloc_ok) ==
    /\ wq # <<>>
    /\ Head(wq).kind = "netdev_event_work"
    /\ \E fail_at \in FailPoints(netdevice_event_work_handler(Run(cache, FailAt(0)),
                                                              Head(wq)).nwr) :
         LET work == Head(wq)
             m == netdevice_event_work_handler(Run(cache, FailAt(fail_at)), work)
         IN  /\ wq' = Tail(wq) \o netdev_cmds_queued(m.c, work, 1, alloc_ok)
             /\ Handled(work, m, Credit(made_for, cache, m.c, work.ndev))
    /\ UNCHANGED sysq

RunAddrWork ==
    /\ wq # <<>>
    /\ Head(wq).kind = "update_gid_event_work"
    /\ \E fail_at \in FailPoints(update_gid_event_work_handler(Run(cache, FailAt(0)),
                                                               Head(wq)).nwr) :
         LET work == Head(wq)
             m == update_gid_event_work_handler(Run(cache, FailAt(fail_at)), work)
         IN  /\ wq' = Tail(wq)
             /\ Handled(work, m, Credit(made_for, cache, m.c, work.ndev))
    /\ UNCHANGED sysq

RunGidWork ==
    /\ wq # <<>>
    /\ Head(wq).kind = "update_gid_work"
    /\ \E fail_at \in FailPoints(update_gid_work_handler(Run(cache, FailAt(0)),
                                                         Head(wq)).nwr) :
         LET work == Head(wq)
             m == update_gid_work_handler(Run(cache, FailAt(fail_at)), work)
         IN  /\ wq' = Tail(wq)
             /\ Handled(work, m, Credit(made_for, cache, m.c, work.ndev))
    /\ UNCHANGED sysq

\* the worker of system_wq runs roce_rescan_devices
RunRescan(alloc_ok) ==
    /\ sysq > 0
    /\ \E fail_at \in FailPoints(roce_rescan_devices(Run(cache, FailAt(0)),
                                                     alloc_ok).m.nwr) :
         LET r == roce_rescan_devices(Run(cache, FailAt(fail_at)), alloc_ok)
         IN  /\ sysq' = sysq - 1
             /\ wq' = wq \o r.queued
             /\ Handled([NoWork EXCEPT !.kind = "rescan"], r.m, r.own)

NotifierEvents == {"NETDEV_REGISTER", "NETDEV_UP", "NETDEV_DOWN"}
AddrEvents == {"NETDEV_UP", "NETDEV_DOWN"}

NextEvt ==
    \/ \E event \in NotifierEvents, ndev \in NetDevs, alloc_ok \in BOOLEAN :
         NetdevNotify(event, ndev, alloc_ok)
    \/ \E ndev \in NetDevs, alloc_ok \in BOOLEAN : NetdevUnregister(ndev, alloc_ok)
    \/ \E ndev \in NetDevs, alloc_ok \in BOOLEAN : NetdevRunTodo(ndev, alloc_ok)
    \/ \E ndev \in NetDevs, mac \in Macs, alloc_ok \in BOOLEAN :
         NetdevChangeAddr(ndev, mac, alloc_ok)
    \/ \E event \in AddrEvents, ndev \in NetDevs, s_addr \in Ip4s, alloc_ok \in BOOLEAN :
         InetAddr(event, ndev, s_addr, alloc_ok)
    \/ \E event \in AddrEvents, ndev \in NetDevs, addr6 \in Ip6s, alloc_ok \in BOOLEAN :
         Inet6Addr(event, ndev, addr6, alloc_ok)
    \/ \E alloc_ok \in BOOLEAN : RunNetdevWork(alloc_ok)
    \/ RunAddrWork
    \/ RunGidWork
    \/ \E alloc_ok \in BOOLEAN : RunRescan(alloc_ok)

SpecEvt == InitEvt /\ [][NextEvt]_vars

(***************************************************************************)
(* SpecConc: the threads.  The worker of roce_gid_mgmt_wq handles          *)
(* update_gid_work and update_gid_event_work items, the worker of          *)
(* system_wq runs roce_rescan_devices, a reader calls                      *)
(* roce_gid_cache_get_gid or roce_gid_cache_find_gid.  A step is one       *)
(* access to the table or to a lock; the find_gid calls a writer makes     *)
(* with the lock held are one step each.  The port has the capability     *)
(* IB_PORT_ROCE only and no interface has an IPv4 address, so that the     *)
(* rescan stores one default gid.                                          *)
(***************************************************************************)
\* where a thread is while it is in write_gid
WgPcs == {"wg_read", "wg_invalidate", "wg_copy_gid", "wg_copy_attr", "wg_publish"}
InWrite(t) == t.pc \in WgPcs

\* the call of write_gid(ix, gid, attr); the thread goes on at `then` after it
CallWrite(t, ix, gid, attr, then) ==
    [t EXCEPT !.pc = "wg_read", !.ix = ix, !.gid = gid, !.attr = attr, !.events = 0,
              !.then = then]

\* one step of write_gid by thread t: r = [t, c, st] are the thread, the table and the
\* pairs stored; ret is what modify_gid returns
wg_step(t, c, st, ret) ==
    LET e == c.data_vec[t.ix]
        Put(e2) == [c EXCEPT !.data_vec[t.ix] = e2]
    IN  IF t.pc = "wg_read"
        THEN [t |-> [t EXCEPT !.orig_seq = e.seq, !.pc = "wg_invalidate"], c |-> c, st |-> st]
        ELSE IF t.pc = "wg_invalidate"
        THEN [t |-> [t EXCEPT !.ret = ret, !.pc = "wg_copy_gid"],
              c |-> Put(wg_modify_gid(wg_invalidate(e), t.ix, t.gid)), st |-> st]
        ELSE IF t.pc = "wg_copy_gid"
        THEN [t |-> [t EXCEPT !.pc = "wg_copy_attr"],
              c |-> Put(wg_copy_gid(wg_reset_context(e, t.ret), t.gid, t.ret)), st |-> st]
        ELSE IF t.pc = "wg_copy_attr"
        THEN [t |-> [t EXCEPT !.pc = "wg_publish"],
              c |-> Put(wg_copy_attr(e, t.attr, t.ret)), st |-> st]
        ELSE [t |-> [t EXCEPT !.pc = t.then, !.events = IF t.ret = 0 THEN 1 ELSE 0],
              c |-> Put(wg_publish(e, t.orig_seq)),
              st |-> [st EXCEPT ![t.ix] = @ \cup {IF t.ret # 0 THEN <<zgid, zattr>>
                                                  ELSE <<t.gid, t.attr>>}]]

\* what modify_gid can return in this step of thread t
RetChoices(t) ==
    IF t.pc = "wg_invalidate" /\ nfail < MaxFailures THEN ModifyRets ELSE {0}

ConcFrame == UNCHANGED <<dev_addr, last, story, ref, nwrites, netVars, sysq, made_for,
                         e1_seen, unreg_done, done, nevents, lifeVars, refVars>>

\* the worker takes the oldest work item; update_gid_event_work_handler takes the rtnl
\* lock first
WkTake ==
    /\ wk.pc = "idle"
    /\ wq # <<>>
    /\ Head(wq).kind \in {"update_gid_work", "update_gid_event_work"}
    /\ Head(wq).kind = "update_gid_event_work" => rtnl = "none"
    /\ rtnl' = IF Head(wq).kind = "update_gid_event_work" THEN "wq_worker" ELSE rtnl
    /\ wq' = Tail(wq)
    /\ wk' = [IdleWriter EXCEPT
                !.work = Head(wq),
                !.pc = IF /\ Head(wq).kind = "update_gid_event_work"
                          /\ ~is_eth_port_of_netdev(Head(wq).ndev)
                       THEN "ug_done" ELSE "ug_loop"]
    /\ UNCHANGED <<cache, sy, rd, lock, stored, nfail>>
    /\ ConcFrame

\* the attributes update_gid passes for gid type wk.i
WkAttr == [gid_type |-> wk.i, ndev |-> wk.work.ndev]
\* roce_add_gid or roce_del_gid returns before it takes the lock
WkRefused ==
    \/ ~cache.active
    \/ /\ wk.work.gid_op = GID_DEL
       /\ WkAttr.ndev # NULL
       /\ wk.work.gid = make_default_gid(WkAttr.ndev)

\* update_gid: the loop over the gid types, up to mutex_lock
WkLoop ==
    /\ wk.pc \in {"ug_loop", "ug_done"}
    /\ IF wk.pc = "ug_done" \/ wk.i >= IB_GID_TYPE_SIZE
       THEN /\ wk' = IdleWriter
            /\ rtnl' = IF rtnl = "wq_worker" THEN "none" ELSE rtnl
            /\ UNCHANGED lock
       ELSE IF ~HasBit(gid_type_mask_support(pattr), wk.i) \/ WkRefused
       THEN /\ wk' = [wk EXCEPT !.i = @ + 1]
            /\ UNCHANGED <<lock, rtnl>>
       ELSE /\ lock = "none"
            /\ lock' = "wq_worker"
            /\ wk' = [wk EXCEPT !.pc = "locked"]
            /\ UNCHANGED rtnl
    /\ UNCHANGED <<cache, wq, sy, rd, stored, nfail>>
    /\ ConcFrame

\* roce_add_gid and roce_del_gid with the lock held, up to write_gid
WkFind ==
    /\ wk.pc = "locked"
    /\ LET ix == IF wk.work.gid_op = GID_ADD
                 THEN find_gid(cache, wk.work.gid, WkAttr, roce_gid_type_msk)
                 ELSE find_gid(cache, wk.work.gid, WkAttr, roce_gid_type_netdev_msk)
           free == find_gid(cache, zgid, zattr, zattr)
       IN  wk' = IF wk.work.gid_op = GID_ADD
                 THEN (IF ix >= 0 \/ free < 0 THEN [wk EXCEPT !.pc = "unlock"]
                       ELSE CallWrite(wk, free, wk.work.gid, WkAttr, "unlock"))
                 ELSE (IF ix < 0 THEN [wk EXCEPT !.pc = "unlock"]
                       ELSE CallWrite(wk, ix, zgid, zattr, "unlock"))
    /\ UNCHANGED <<cache, wq, sy, rd, lock, rtnl, stored, nfail>>
    /\ ConcFrame

WkWrite(ret) ==
    /\ InWrite(wk)
    /\ LET r == wg_step(wk, cache, stored, ret)
       IN  wk' = r.t /\ cache' = r.c /\ stored' = r.st
    /\ nfail' = IF ret # 0 THEN nfail + 1 ELSE nfail
    /\ UNCHANGED <<wq, sy, rd, lock, rtnl>>
    /\ ConcFrame

WkUnlock ==
    /\ wk.pc = "unlock"
    /\ lock' = "none"
    /\ wk' = [wk EXCEPT !.pc = "ug_loop", !.i = @ + 1]
    /\ UNCHANGED <<cache, wq, sy, rd, rtnl, stored, nfail>>
    /\ ConcFrame

\* roce_rescan_devices: enum_all_gids takes the rtnl lock; of the interfaces listed the
\* port's own gets its default gids
SyStart ==
    /\ sy.pc = "idle"
    /\ sysq > 0
    /\ rtnl = "none"
    /\ rtnl' = "sys_worker"
    /\ sysq' = sysq - 1
    /\ sy' = [IdleWriter EXCEPT !.pc = IF port_netdev \in Listed THEN "sd_loop"
                                       ELSE "sd_done"]
    /\ UNCHANGED <<cache, dev_addr, last, story, ref, nwrites, netVars, wq, made_for,
                   e1_seen, unreg_done, done, nevents, nfail, wk, rd, lock, stored,
                   lifeVars, refVars>>

\* roce_gid_cache_set_default_gid between its write_gid calls: the lock is not taken
SyNext ==
    /\ sy.pc \in {"sd_loop", "sd_cleared", "sd_stored"}
    /\ sy' = IF sy.pc = "sd_loop"
             THEN (IF sy.i >= IB_GID_TYPE_SIZE THEN [sy EXCEPT !.pc = "sd_done"]
                   ELSE IF ~HasBit(gid_type_mask_support(pattr), sy.i)
                   THEN [sy EXCEPT !.i = @ + 1]
                   ELSE CallWrite(sy, sy.success, zgid, zattr, "sd_cleared"))
             ELSE IF sy.pc = "sd_cleared"
             THEN (IF sy.ret # 0 THEN [sy EXCEPT !.pc = "sd_loop", !.i = @ + 1]
                   ELSE CallWrite(sy, sy.success, make_default_gid(port_netdev),
                                  [gid_type |-> sy.i, ndev |-> port_netdev], "sd_stored"))
             ELSE [sy EXCEPT !.pc = "sd_loop", !.i = @ + 1,
                             !.success = IF sy.ret # 0 THEN @ ELSE @ + 1]
    /\ UNCHANGED <<cache, wq, wk, rd, lock, rtnl, stored, nfail>>
    /\ ConcFrame

SyWrite(ret) ==
    /\ InWrite(sy)
    /\ LET r == wg_step(sy, cache, stored, ret)
       IN  sy' = r.t /\ cache' = r.c /\ stored' = r.st
    /\ nfail' = IF ret # 0 THEN nfail + 1 ELSE nfail
    /\ UNCHANGED <<wq, wk, rd, lock, rtnl>>
    /\ ConcFrame

\* the IPv6 addresses of the interfaces listed are queued; the rtnl lock is released
RECURSIVE rescan_queued(_, _)
rescan_queued(ndevs, alloc_ok) ==
    IF ndevs = {} THEN <<>>
    ELSE LET ndev == Min(ndevs)
         IN  (IF PortPasses(add_cmd, ndev) THEN add_netdev_ips_queued(cache, ndev, alloc_ok)
              ELSE <<>>) \o rescan_queued(ndevs \ {ndev}, alloc_ok)
SyEnd(alloc_ok) ==
    /\ sy.pc = "sd_done"
    /\ wq' = wq \o rescan_queued(Listed, alloc_ok)
    /\ rtnl' = "none"
    /\ sy' = IdleWriter
    /\ UNCHANGED <<cache, wk, rd, lock, stored, nfail>>
    /\ ConcFrame

\* the reader calls roce_gid_cache_get_gid(index)
RdGetCall(index) ==
    /\ rd.pc = "idle"
    /\ rd.n < MaxReads
    /\ rd' = IF ~cache.active
             THEN [IdleReader EXCEPT !.pc = "done", !.op = "get", !.n = rd.n + 1,
                                     !.index = index, !.ret = -ENOSYS]
             ELSE IF index < 0 \/ index >= cache.sz
             THEN [IdleReader EXCEPT !.pc = "done", !.op = "get", !.n = rd.n + 1,
                                     !.index = index, !.ret = -EINVAL]
             ELSE [IdleReader EXCEPT !.pc = "gg_seq", !.op = "get", !.n = rd.n + 1,
                                     !.index = index]
    /\ UNCHANGED <<cache, wq, wk, sy, lock, rtnl, stored, nfail>>
    /\ ConcFrame

\* roce_gid_cache_get_gid: one access to the entry
RdGet ==
    /\ rd.pc \in {"gg_seq", "gg_copy_gid", "gg_copy_attr", "gg_check"}
    /\ LET e == cache.data_vec[rd.index]
       IN  rd' = IF rd.pc = "gg_seq"
                 THEN [rd EXCEPT !.orig_seq = e.seq, !.pc = "gg_copy_gid"]
                 ELSE IF rd.pc = "gg_copy_gid"
                 THEN [rd EXCEPT !.l_gid = e.gid, !.pc = "gg_copy_attr"]
                 ELSE IF rd.pc = "gg_copy_attr"
                 THEN [rd EXCEPT !.l_attr = e.attr, !.pc = "gg_check"]
                 ELSE LET res == gg_result(rd.orig_seq, rd.l_gid, rd.l_attr, e.seq)
                      IN  [rd EXCEPT !.pc = "done", !.ret = res.ret, !.l_gid = res.gid,
                                     !.l_attr = res.attr]
    /\ UNCHANGED <<cache, wq, wk, sy, lock, rtnl, stored, nfail>>
    /\ ConcFrame

\* the reader calls roce_gid_cache_find_gid(gid, gid_type)
RdFindCall(gid, gid_type) ==
    /\ rd.pc = "idle"
    /\ rd.n < MaxReads
    /\ rd' = IF ~cache.active
             THEN [IdleReader EXCEPT !.pc = "done", !.op = "find", !.n = rd.n + 1,
                                     !.gid = gid, !.gid_type = gid_type, !.ret = -ENOENT]
             ELSE [IdleReader EXCEPT !.pc = "fg_seq", !.op = "find", !.n = rd.n + 1,
                                     !.gid = gid, !.gid_type = gid_type]
    /\ UNCHANGED <<cache, wq, wk, sy, lock, rtnl, stored, nfail>>
    /\ ConcFrame

\* find_gid goes on with the next entry, or returns -1 after the last
fg_continue(r, c) ==
    IF r.i + 1 >= c.sz THEN [r EXCEPT !.pc = "done", !.ret = -ENOENT]
    ELSE [r EXCEPT !.pc = "fg_seq", !.i = r.i + 1]

\* find_gid with the mask roce_gid_type_msk: one access to the entry rd.i
RdFind ==
    /\ rd.pc \in {"fg_seq", "fg_type", "fg_gid", "fg_check"}
    /\ LET e == cache.data_vec[rd.i]
           val == [gid_type |-> rd.gid_type, ndev |-> NULL]
           msk == roce_gid_type_msk
       IN  rd' = IF rd.pc = "fg_seq"
                 THEN (IF e.seq = SeqInvalid THEN fg_continue(rd, cache)
                       ELSE [rd EXCEPT !.orig_seq = e.seq, !.pc = "fg_type"])
                 ELSE IF rd.pc = "fg_type"
                 THEN (IF ~fg_type_ok(e.attr.gid_type, val, msk) THEN fg_continue(rd, cache)
                       ELSE [rd EXCEPT !.l_attr = [zattr EXCEPT !.gid_type = e.attr.gid_type],
                                       !.pc = "fg_gid"])
                 ELSE IF rd.pc = "fg_gid"
                 THEN (IF ~fg_gid_ok(e.gid, rd.gid) THEN fg_continue(rd, cache)
                       ELSE [rd EXCEPT !.l_gid = e.gid, !.pc = "fg_check"])
                 ELSE (IF fg_match(rd.orig_seq, rd.l_attr.gid_type, rd.l_gid,
                                   rd.l_attr.ndev, e.seq, rd.gid, val, msk)
                       THEN [rd EXCEPT !.pc = "done", !.ret = 0, !.out = rd.i]
                       ELSE fg_continue(rd, cache))
    /\ UNCHANGED <<cache, wq, wk, sy, lock, rtnl, stored, nfail>>
    /\ ConcFrame

\* the reader's call has returned
RdReturn ==
    /\ rd.pc = "done"
    /\ rd' = [IdleReader EXCEPT !.n = rd.n]
    /\ UNCHANGED <<cache, wq, wk, sy, lock, rtnl, stored, nfail>>
    /\ ConcFrame

\* the work queued when the rescan starts: the deferred add of an IPv6 address that
\* enum_netdev_ipv6_ips queued, or the work of the inet6addr events of an address that
\* was added, or added and removed
ConcWorks ==
    {<<GidWork(GID_ADD, ip6_to_gid(a), port_netdev)>> : a \in Ip6s}
    \cup {<<AddrWork(GID_ADD, ip6_to_gid(a), port_netdev, FALSE)>> : a \in Ip6s}
    \cup {<<AddrWork(GID_ADD, ip6_to_gid(a), port_netdev, FALSE),
             AddrWork(GID_DEL, ip6_to_gid(a), port_netdev, TRUE)>> : a \in Ip6s}
\* the gids a reader looks for
ReadGids == {ip6_to_gid(a) : a \in Ip6s} \cup {make_default_gid(port_netdev)}

\* roce_gid_cache_client_setup_one has set the table active and scheduled the rescan;
\* work is queued
InitConc ==
    /\ cache = EmptyCache(TblSz)
    /\ dev_addr = [n \in NetDevs |-> 1]
    /\ last = NoCall
    /\ story = NoStory
    /\ ref = [orig |-> {}, exact |-> {}]
    /\ nwrites = 0
    /\ reg_state = [n \in NetDevs |-> NETREG_REGISTERED]
    /\ in4 = [n \in NetDevs |-> {}]
    /\ wq \in ConcWorks
    /\ in6 = [n \in NetDevs |-> IF n = port_netdev /\ Len(wq) = 1 THEN Ip6s ELSE {}]
    /\ pattr = [err |-> 0, port_cap_flags |-> {IB_PORT_ROCE}]
    /\ sysq = 1
    /\ made_for = [i \in 0 .. (TblSz - 1) |-> NULL]
    /\ e1_seen = {}
    /\ unreg_done = {}
    /\ done = NoneDone
    /\ nevents = 0
    /\ nfail = 0
    /\ NoThreads
    /\ NoDevice
    /\ NoRefs

NextConc ==
    \/ WkTake
    \/ WkLoop
    \/ WkFind
    \/ \E ret \in RetChoices(wk) : WkWrite(ret)
    \/ WkUnlock
    \/ SyStart
    \/ SyNext
    \/ \E ret \in RetChoices(sy) : SyWrite(ret)
    \/ \E alloc_ok \in BOOLEAN : SyEnd(alloc_ok)
    \/ \E index \in -1 .. TblSz : RdGetCall(index)
    \/ RdGet
    \/ \E gid \in ReadGids, gid_type \in GidTypes : RdFindCall(gid, gid_type)
    \/ RdFind
    \/ RdReturn

SpecConc == InitConc /\ [][NextConc]_vars

(***************************************************************************)
(* Properties of the calls (Spec, SpecRef).                                *)
(***************************************************************************)
\* the slots that hold gid with gid_type
Holding(c, gid, gid_type) ==
    {i \in Slots(c) : c.data_vec[i].gid = gid /\ c.data_vec[i].attr.gid_type = gid_type}
\* the slots that hold exactly gid, attr
HoldingExactly(c, gid, attr) ==
    {i \in Slots(c) : c.data_vec[i].gid = gid /\ c.data_vec[i].attr = attr}
\* what roce_gid_cache_get_gid returns over all indices, empty entries left out
ObservedByGet(c) ==
    {<<o.gid, o.attr.gid_type, o.attr.ndev>> :
        o \in {g \in {roce_gid_cache_get_gid(c, i) : i \in Slots(c)} :
                 g.ret = 0 /\ g.gid # zgid}}
\* the (gid, type) pairs roce_gid_cache_find_gid finds
ObservedByFind(c) ==
    {k \in ApiGids \X GidTypes : roce_gid_cache_find_gid(c, k[1], k[2]).ret = 0}
Pairs(triples) == {<<t[1], t[2]>> : t \in triples}
IsDefaultOf(gid, attr) == attr.ndev # NULL /\ gid = make_default_gid(attr.ndev)

\* C3, as stated: after any add and delete calls the entries seen through get and
\* through find are the pairs added (with success) and not deleted since.
C3_AsStated ==
    /\ Pairs(ObservedByGet(cache)) = ref.orig
    /\ ObservedByFind(cache) = ref.orig

\* C3, amended: after any add and delete calls the entries seen through get are the
\* (gid, type, ndev) triples of the reference set in which an add inserts only when it
\* returned success with modify_gid succeeding and no triple of its (gid, type) present,
\* and a delete that returned success removes the triple of its gid, type and ndev only;
\* find finds exactly their (gid, type) pairs.
C3_ObservedIsReference ==
    /\ ObservedByGet(cache) = ref.exact
    /\ ObservedByFind(cache) = Pairs(ref.exact)

\* a delete removed one of several entries
C3_Witness ==
    /\ last.op = "del" /\ last.nwr = 1
    /\ ref.exact # {}
    /\ ObservedByGet(cache) = ref.exact

\* C4, as stated: an add called a second time with the same arguments returns success,
\* writes nothing and leaves exactly one slot holding (gid, type).
C4_AsStated ==
    [][(last.op = "add" /\ last'.op = "add") =>
       \A gid \in ApiGids, attr \in ApiAttrs, rets \in Outcomes(1) :
         (/\ story.gid = gid /\ story.attr = attr
          /\ Add(gid, attr, rets))
         => (/\ last'.ret = 0
             /\ cache' = cache
             /\ Cardinality(Holding(cache', gid, attr.gid_type)) = 1)]_vars

\* C4, amended: when the first add stored its entry (a slot was free and modify_gid
\* succeeded), the same add called again returns success, writes nothing and exactly one
\* slot holds (gid, type).
C4_SecondAddWritesNothing ==
    [][(last.op = "add" /\ last.okw = 1 /\ last'.op = "add") =>
       \A gid \in ApiGids, attr \in ApiAttrs, rets \in Outcomes(1) :
         (/\ story.gid = gid /\ story.attr = attr
          /\ Add(gid, attr, rets))
         => (/\ last'.ret = 0
             /\ last'.nwr = 0
             /\ cache' = cache
             /\ Cardinality(Holding(cache', gid, attr.gid_type)) = 1)]_vars

\* an add stored its entry and was called again with the same arguments
C4_Witness == story.tag = "repeated" /\ last.op = "add" /\ last.nwr = 0

\* C5, as stated: after cache.sz adds that returned success an add of an absent entry
\* fails with -ENOSPC and changes nothing; after a delete of a stored entry that follows,
\* an add of an absent entry returns success and stores its entry.
C5_AsStated ==
    [][last'.op = "add" =>
       \A gid \in ApiGids, attr \in ApiAttrs, rets \in Outcomes(1) :
         (/\ story.run = cache.sz \/ (last.op = "del" /\ last.nwr = 1)
          /\ Holding(cache, gid, attr.gid_type) = {}
          /\ Add(gid, attr, rets))
         => (/\ story.run = cache.sz => (last'.ret = -ENOSPC /\ cache' = cache)
             /\ (last.op = "del" /\ last.nwr = 1)
                   => (last'.ret = 0 /\ HoldingExactly(cache', gid, attr) # {}))]_vars

\* C5, amended: after cache.sz adds of different entries that returned success with
\* modify_gid succeeding, an add of an absent entry fails with -ENOSPC and changes
\* nothing; after a delete that cleared a slot, an add of an absent entry returns success
\* and stores its entry when its modify_gid succeeds (an empty slot otherwise).
C5_CapacityBoundary ==
    [][last'.op = "add" =>
       \A gid \in ApiGids, attr \in ApiAttrs, rets \in Outcomes(1) :
         (/\ story.run_ok = cache.sz \/ (last.op = "del" /\ last.nwr = 1)
          /\ Holding(cache, gid, attr.gid_type) = {}
          /\ Add(gid, attr, rets))
         => (/\ story.run_ok = cache.sz => (last'.ret = -ENOSPC /\ cache' = cache)
             /\ (last.op = "del" /\ last.nwr = 1)
                   => (/\ last'.ret = 0
                       /\ last'.nwr = 1
                       /\ last'.okw = 1 => HoldingExactly(cache', gid, attr) # {}
                       /\ last'.okw = 0 => HoldingExactly(cache', gid, attr) = {}))]_vars

\* the table was filled, an add was refused, a delete freed a slot and an add filled it
C5_Witness ==
    /\ story.tag = "refilled"
    /\ \A i \in Slots(cache) : cache.data_vec[i].gid # zgid

\* C6: a delete that matches no slot by gid, type and interface, of a gid that is not
\* the default gid of attr.ndev, returns 0 and changes no slot.
C6_DeleteOfAbsentIsNoop ==
    [][last'.op = "del" =>
       \A gid \in ApiGids, attr \in ApiAttrs, rets \in Outcomes(1) :
         (/\ cache.active
          /\ HoldingExactly(cache, gid, attr) = {}
          /\ ~IsDefaultOf(gid, attr)
          /\ Del(gid, attr, rets))
         => (last'.ret = 0 /\ last'.nwr = 0 /\ cache' = cache)]_vars

\* a delete found nothing to delete in a table that holds entries
C6_Witness ==
    /\ last.op = "del" /\ last.ret = 0 /\ last.nwr = 0
    /\ \E i \in Slots(cache) : cache.data_vec[i].gid # zgid

\* C7: a delete of the default gid of attr.ndev fails with -EPERM and changes nothing,
\* whatever the table holds; del_all of an interface returns 0 and leaves no slot of
\* that interface, hence none holding its default gid for it.
C7_DefaultGidProtected ==
    [][/\ last'.op = "del" =>
            \A gid \in ApiGids, attr \in ApiAttrs, rets \in Outcomes(1) :
               (cache.active /\ IsDefaultOf(gid, attr) /\ Del(gid, attr, rets))
               => (last'.ret = -EPERM /\ cache' = cache)
       /\ last'.op = "del_all" =>
            \A ndev \in NDevs, rets \in Outcomes(cache.sz) :
            (cache.active /\ DelAll(ndev, rets))
            => (/\ last'.ret = 0
                /\ \A i \in Slots(cache') :
                      /\ cache'.data_vec[i].attr.ndev # ndev
                      /\ ~(/\ cache'.data_vec[i].gid = make_default_gid(ndev)
                           /\ cache'.data_vec[i].attr.ndev = ndev))]_vars

\* set_default stored a default gid, its delete was refused, del_all removed it
C7_Witness ==
    /\ story.tag = "default_cleared"
    /\ \A i \in Slots(cache) : cache.data_vec[i].attr.ndev = NULL
(***************************************************************************)
(* Properties of the event handling (SpecEvt).                             *)
(***************************************************************************)
\* the slots that hold an entry
NonEmpty(c) == {i \in Slots(c) : c.data_vec[i].gid # zgid}
\* the gid types the port supports
Supported == {t \in GidTypes : HasBit(gid_type_mask_support(pattr), t)}
\* the worker handles the oldest work item in this step
Handles(kind) ==
    /\ wq # <<>>
    /\ Head(wq).kind = kind
    /\ done'.work = Head(wq)
    /\ nevents' = nevents
    /\ sysq' = sysq

\* C8: when the address-removed event E2 of address A on interface X was queued after
\* the address-added event E1 of A on X, then once the work item of E2 has been handled
\* (that of E1 was handled before it) no slot of the port bound to X holds the gid of A,
\* with any gid type.
C8_EventOrderPreserved ==
    (/\ done.work.kind = "update_gid_event_work"
     /\ done.work.gid_op = GID_DEL
     /\ done.work.follows_add
     /\ is_eth_port_of_netdev(done.work.ndev))
    => \A i \in Slots(cache) : cache.data_vec[i].gid # done.work.gid

\* C9: once the NETDEV_UNREGISTER work item of interface X has been handled and no work
\* is queued or pending, no slot holds an entry stored for X; and the handling of that
\* work item changes the gid and the attributes of no slot stored for another interface.
C9_UnregisterRemovesAll ==
    /\ [](\A x \in unreg_done :
            (wq = <<>> /\ sysq = 0) => \A i \in Slots(cache) : made_for[i] # x)
    /\ [][(Handles("netdev_event_work") /\ Head(wq).cmds = <<del_cmd>>)
          => \A i \in Slots(cache) :
                made_for[i] \notin {NULL, Head(wq).ndev}
                => /\ cache'.data_vec[i].gid = cache.data_vec[i].gid
                   /\ cache'.data_vec[i].attr = cache.data_vec[i].attr]_vars

C1_ReadersSeeWholeWrites ==
    /\ (rd.pc = "done" /\ rd.op = "get" /\ rd.ret = 0)
          => <<rd.l_gid, rd.l_attr>> \in stored[rd.index]
    /\ (rd.pc = "done" /\ rd.op = "find" /\ rd.ret = 0)
          => \E p \in stored[rd.out] :
                p[1] = rd.l_gid /\ p[2].gid_type = rd.l_attr.gid_type

\* C2: two threads are never in write_gid on the table at once, and a thread that is in
\* write_gid holds cache->lock.
C2_WritesUnderLock ==
    /\ ~(InWrite(wk) /\ InWrite(sy))
    /\ InWrite(wk) => lock = "wq_worker"
    /\ InWrite(sy) => lock = "sys_worker"

(***************************************************************************)
(* Properties of the NETDEV_CHANGEADDR handling (SpecEvt).                 *)
(***************************************************************************)
\* the (gid, type) pairs of the entries table c holds in the slots own says are x's
EntriesFor(c, own, x) ==
    {<<c.data_vec[i].gid, c.data_vec[i].attr.gid_type>> :
        i \in {j \in Slots(c) : own[j] = x /\ c.data_vec[j].gid # zgid}}
\* the table between the two commands of a NETDEV_CHANGEADDR work item: a write of the
\* empty entry leaves the same slot whatever modify_gid returns
AfterDelCmd(work) ==
    ib_enum_roce_ports_of_netdev(Run(cache, FailAt(0)), work.ndev, del_cmd).c
\* the table a NETDEV_REGISTER work item of ndev leaves when it starts from the empty one
FreshlyRegistered(ndev) ==
    netdevice_event_work_handler(Run(EmptyCache(EvtTblSz), FailAt(0)),
                                 NetdevWork(<<add_cmd>>, ndev)).c

\* C11: the handling of a NETDEV_CHANGEADDR work item of interface X runs del_netdev_ips
\* before add_netdev_ips; between the two no slot holds an entry stored for X; and, with
\* modify_gid never failing, afterwards the entries of X are those a NETDEV_REGISTER of X
\* stores in an empty table.
C11_ChangeAddrDeletesThenAdds ==
    [][(Handles("netdev_event_work") /\ Head(wq).cmds = <<del_cmd, add_cmd>>)
       => LET x == Head(wq).ndev
              mid == AfterDelCmd(Head(wq))
          IN  /\ Head(wq).cmds[1] = del_cmd
              /\ \A i \in Slots(cache) : made_for[i] = x => mid.data_vec[i].gid = zgid
              /\ done'.okw = done'.nwr
                    => EntriesFor(cache', made_for', x)
                         = EntriesFor(FreshlyRegistered(x),
                                      [i \in Slots(cache) |-> x], x)]_vars

(***************************************************************************)
(* SpecLife: the life of the device's cache.                               *)
(* roce_gid_cache_client_setup_one and roce_gid_cache_client_cleanup_one   *)
(* are the add and remove callbacks of the ib_client.  The notifier        *)
(* callbacks queue work at any time; the worker of roce_gid_mgmt_wq and    *)
(* the worker of system_wq run the handlers one cache operation at a time. *)
(* A pointer is a sequence of at most one object: <<>> is NULL.            *)
(***************************************************************************)
\* ib_dev->get_netdev returns port_netdev for this port; the other ports are not RoCE
\* ports
eth_port == 1

\* alloc_roce_gid_cache: kzalloc leaves active at 0
alloc_roce_gid_cache(sz) == <<[EmptyCache(sz) EXCEPT !.active = FALSE]>>

\* what the allocations of an attach do: modify_gid is whether the driver has the
\* callback; fail = 0: none fails, 1: the kcalloc of the array fails, 1 + p: the
\* allocation of the table of port p fails, phys_port_cnt + 2: the kzalloc of the rescan
\* work fails
AttachCfgs == [modify_gid : BOOLEAN, fail : 0 .. (phys_port_cnt + 2)]

\* roce_gid_cache_setup_one: the loop over the ports, with rollback_cache_setup
RECURSIVE setup_ports(_, _, _)
setup_ports(arr, port, fail) ==
    IF port > phys_port_cnt THEN [err |-> 0, arr |-> arr]
    ELSE IF fail = 1 + port THEN [err |-> -ENOMEM, arr |-> <<>>]
    ELSE setup_ports([arr EXCEPT ![port] = alloc_roce_gid_cache(TblSz)], port + 1, fail)

roce_gid_cache_setup_one(arr, cfg) ==
    IF ~cfg.modify_gid THEN [err |-> -ENOSYS, arr |-> arr]
    ELSE IF cfg.fail = 1 THEN [err |-> -ENOMEM, arr |-> <<>>]
    ELSE setup_ports([p \in 1 .. phys_port_cnt |-> <<>>], 1, cfg.fail)

roce_gid_cache_cleanup_one(arr) == <<>>

set_roce_gid_cache_active(ptr, active) ==
    IF ptr = <<>> THEN ptr ELSE <<[ptr[1] EXCEPT !.active = active]>>
roce_gid_cache_set_active_state(arr, active) ==
    IF arr = <<>> THEN arr
    ELSE [p \in DOMAIN arr |-> set_roce_gid_cache_active(arr[p], active)]

roce_gid_cache_is_active(arr, port) == arr # <<>> /\ arr[port][1].active

\* the tables are set active before the rescan work is allocated, and are left as they
\* are when that allocation fails
roce_gid_cache_client_setup_one_eager(arr, cfg) ==
    LET s == roce_gid_cache_setup_one(arr, cfg)
    IN  IF s.err # 0 THEN [arr |-> s.arr, scheduled |-> FALSE]
        ELSE [arr |-> roce_gid_cache_set_active_state(s.arr, TRUE),
              scheduled |-> cfg.fail # phys_port_cnt + 2]
\* roce_gid_cache_client_setup_one: the array it leaves, and whether the rescan is
\* scheduled
roce_gid_cache_client_setup_one(arr, cfg) ==
    LET s == roce_gid_cache_setup_one(arr, cfg)
    IN  IF s.err # 0 THEN [arr |-> s.arr, scheduled |-> FALSE]
        ELSE IF cfg.fail = phys_port_cnt + 2
        THEN [arr |-> roce_gid_cache_cleanup_one(s.arr), scheduled |-> FALSE]
        ELSE [arr |-> roce_gid_cache_set_active_state(s.arr, TRUE), scheduled |-> TRUE]

\* a cache operation a handler calls, with its arguments
Op(op, gid, attr) == [op |-> op, gid |-> gid, attr |-> attr]
NoOp == Op("none", zgid, zattr)
\* a thread that runs handlers: id and work are the work item, i its rtnl section, ops the
\* operations the enumeration of the section has left
IdleHandler == [pc |-> "idle", id |-> 0, work |-> NoWork, i |-> 1, ops |-> <<>>]
\* the work item of roce_rescan_devices
RescanWork == [NoWork EXCEPT !.kind = "rescan"]
\* a work item allocated: held is the reference dev_hold took for it
NewItem(work, held) == [work |-> work, state |-> "queued", execs |-> 0, held |-> held]

\* the table as an operation on the port finds it
TableState(arr, port) ==
    IF arr = <<>> THEN "absent"
    ELSE IF arr[port][1].active THEN "active" ELSE "inactive"

\* update_gid: one roce_add_gid or roce_del_gid for every gid type of the port
RECURSIVE update_gid_ops(_, _, _, _)
update_gid_ops(i, gid_op, gid, ndev) ==
    IF i >= IB_GID_TYPE_SIZE THEN <<>>
    ELSE (IF HasBit(gid_type_mask_support(pattr), i)
          THEN <<Op(IF gid_op = GID_ADD THEN "add" ELSE "del", gid,
                    [gid_type |-> i, ndev |-> ndev])>>
          ELSE <<>>)
         \o update_gid_ops(i + 1, gid_op, gid, ndev)
\* enum_netdev_ipv4_ips: update_gid_ip for every address, the interface left out
RECURSIVE for_ifa_ops(_)
for_ifa_ops(ifa_list) ==
    IF ifa_list = {} THEN <<>>
    ELSE LET ifa == Min(ifa_list)
         IN  update_gid_ops(0, GID_ADD, ip4_to_gid(ifa), NULL)
             \o for_ifa_ops(ifa_list \ {ifa})
\* enum_netdev_ipv6_ips: queue_update_gid_work for every address
RECURSIVE list_for_each_entry_ops(_, _)
list_for_each_entry_ops(ndev, addr_list) ==
    IF addr_list = {} THEN <<>>
    ELSE LET ifp == CHOOSE a \in addr_list : TRUE
         IN  <<Op("queue_update_gid_work", ip6_to_gid(ifp), [gid_type |-> 0, ndev |-> ndev])>>
             \o list_for_each_entry_ops(ndev, addr_list \ {ifp})
add_netdev_ips_ops(ndev) ==
    (IF port_netdev = ndev
     THEN <<Op("set_default_gid", zgid, [gid_type |-> 0, ndev |-> ndev])>> ELSE <<>>)
    \o (IF reg_state[ndev] >= NETREG_UNREGISTERING THEN <<>>
        ELSE for_ifa_ops(in4[ndev]) \o list_for_each_entry_ops(ndev, in6[ndev]))
del_netdev_ips_ops(ndev) == <<Op("del_all_netdev_gids", zgid, [gid_type |-> 0, ndev |-> ndev])>>

\* the device is on the list ib_enum_roce_ports_of_netdev walks from the call of the add
\* callback of the client to the return of its remove callback
ib_dev_listed(phase) == phase \notin {"unattached", "detached"}
\* ib_enum_roce_ports_of_netdev: the operations the callback makes on the Ethernet port
enum_ops(phase, cmd, ndev) ==
    IF ~ib_dev_listed(phase) \/ ~PortPasses(cmd, ndev) THEN <<>>
    ELSE IF cmd.cb = "add_netdev_ips" THEN add_netdev_ips_ops(ndev)
    ELSE del_netdev_ips_ops(ndev)
\* enum_all_gids: for_each_netdev, lowest first
RECURSIVE for_each_netdev_ops(_, _)
for_each_netdev_ops(phase, ndevs) ==
    IF ndevs = {} THEN <<>>
    ELSE LET ndev == Min(ndevs)
         IN  enum_ops(phase, add_cmd, ndev) \o for_each_netdev_ops(phase, ndevs \ {ndev})

\* the handlers: how many sections a handler has, whether it takes the rtnl lock around
\* them, and the operations of section i
Sections(work) == IF work.kind = "netdev_event_work" THEN Len(work.cmds) ELSE 1
TakesRtnl(work) == work.kind # "update_gid_work"
SectionOps(phase, work, i) ==
    IF work.kind = "netdev_event_work" THEN enum_ops(phase, work.cmds[i], work.ndev)
    ELSE IF work.kind = "update_gid_event_work"
    THEN (IF ib_dev_listed(phase) /\ is_eth_port_of_netdev(work.ndev)
          THEN update_gid_ops(0, work.gid_op, work.gid, work.ndev) ELSE <<>>)
    ELSE IF work.kind = "update_gid_work"
    THEN update_gid_ops(0, work.gid_op, work.gid, work.ndev)
    ELSE for_each_netdev_ops(phase, Listed)

\* roce_add_gid, roce_del_gid, roce_del_all_netdev_gids up to mutex_lock: the value
\* returned before the lock is taken, NULL when the lock is taken
early_return(arr, port, o) ==
    IF arr = <<>> THEN (IF o.op = "add" THEN <<-ENOSYS>> ELSE <<0>>)
    ELSE IF ~arr[port][1].active THEN <<-ENOSYS>>
    ELSE IF o.op = "del" /\ o.attr.ndev # NULL /\ o.gid = make_default_gid(o.attr.ndev)
    THEN <<-EPERM>>
    ELSE <<>>
\* the same operations from mutex_lock to mutex_unlock: the check of active is behind
under_lock(tbl, o) ==
    LET m0 == Run([tbl EXCEPT !.active = TRUE], FailAt(0))
        m == IF o.op = "add" THEN roce_add_gid(m0, o.gid, o.attr)
             ELSE IF o.op = "del" THEN roce_del_gid(m0, o.gid, o.attr)
             ELSE roce_del_all_netdev_gids(m0, o.attr.ndev)
    IN  [m EXCEPT !.c.active = tbl.active]

Th(t) == IF t = "wq_worker" THEN wk ELSE sy
ThNext(t, v) == IF t = "wq_worker" THEN wk' = v /\ sy' = sy ELSE sy' = v /\ wk' = wk
LifeFrame == UNCHANGED <<cache, dev_addr, last, story, ref, nwrites, netVars, made_for,
                         e1_seen, unreg_done, done, nfail, rd, stored, refVars>>

\* ib_register_device calls the add callback of the client
LifeAttach(cfg) ==
    /\ client.pc = "unattached"
    /\ LET r == roce_gid_cache_client_setup_one(dev_cache, cfg)
       IN  /\ dev_cache' = r.arr
           /\ sysq' = IF r.scheduled THEN 1 ELSE 0
           /\ items' = IF r.scheduled THEN Append(items, NewItem(RescanWork, FALSE))
                       ELSE items
           /\ client' = [client EXCEPT !.pc = "attached", !.cfg = cfg]
    /\ UNCHANGED <<wq, nevents, wk, sy, lock, rtnl>>
    /\ LifeFrame

\* a notifier callback queues the work items `queued`, with dev_hold for each
LifeNotified(queued) ==
    /\ nevents < MaxLifeEvents
    /\ nevents' = nevents + 1
    /\ wq' = wq \o [k \in 1 .. Len(queued) |-> Len(items) + k]
    /\ items' = items \o [k \in 1 .. Len(queued) |-> NewItem(queued[k], TRUE)]
    /\ UNCHANGED <<sysq, wk, sy, lock, rtnl, dev_cache, client>>
    /\ LifeFrame
LifeNetdevEvent(event, alloc_ok) ==
    LifeNotified(netdevice_event(event, port_netdev, reg_state, alloc_ok))
LifeAddrEvent(event, s_addr, alloc_ok) ==
    LifeNotified(inetaddr_event(event, port_netdev, s_addr, alloc_ok, FALSE))

\* a worker takes the oldest work item of its queue
LfTake(t) ==
    /\ Th(t).pc = "idle"
    /\ IF t = "wq_worker"
       THEN /\ wq # <<>>
            /\ wq' = Tail(wq)
            /\ UNCHANGED sysq
            /\ ThNext(t, [IdleHandler EXCEPT !.pc = "section", !.id = Head(wq),
                                             !.work = items[Head(wq)].work])
            /\ items' = [items EXCEPT ![Head(wq)].state = "running",
                                      ![Head(wq)].execs = @ + 1]
       ELSE /\ sysq > 0
            /\ sysq' = sysq - 1
            /\ UNCHANGED wq
            /\ LET id == CHOOSE k \in DOMAIN items :
                            items[k].work.kind = "rescan" /\ items[k].state = "queued"
               IN  /\ ThNext(t, [IdleHandler EXCEPT !.pc = "section", !.id = id,
                                                    !.work = items[id].work])
                   /\ items' = [items EXCEPT ![id].state = "running",
                                             ![id].execs = @ + 1]
    /\ UNCHANGED <<nevents, lock, rtnl, dev_cache, client>>
    /\ LifeFrame

\* rtnl_lock and the enumeration of the section (update_gid_work_handler takes no lock
\* and enumerates nothing: it has the device and the port in its work item)
LfEnter(t) ==
    /\ Th(t).pc = "section"
    /\ IF TakesRtnl(Th(t).work)
       THEN rtnl = "none" /\ rtnl' = t
       ELSE UNCHANGED rtnl
    /\ ThNext(t, [Th(t) EXCEPT !.pc = "ops",
                               !.ops = SectionOps(client.pc, Th(t).work, Th(t).i)])
    /\ UNCHANGED <<wq, sysq, nevents, lock, dev_cache, client, items>>
    /\ LifeFrame

\* roce_add_gid, roce_del_gid or roce_del_all_netdev_gids is called: it returns at once
\* or takes cache->lock
LfCall(t) ==
    /\ Th(t).pc = "ops" /\ Th(t).ops # <<>>
    /\ Head(Th(t).ops).op \in {"add", "del", "del_all_netdev_gids"}
    /\ LET o == Head(Th(t).ops)
           r == early_return(dev_cache, eth_port, o)
       IN  IF r # <<>>
           THEN /\ ThNext(t, [Th(t) EXCEPT !.ops = Tail(@)])
                /\ UNCHANGED lock
           ELSE /\ lock = "none"
                /\ lock' = t
                /\ ThNext(t, [Th(t) EXCEPT !.pc = "locked"])
    /\ UNCHANGED <<wq, sysq, nevents, rtnl, dev_cache, client, items>>
    /\ LifeFrame

\* the operation with cache->lock held, up to its return
LfLocked(t) ==
    /\ Th(t).pc = "locked"
    /\ dev_cache # <<>>
    /\ LET o == Head(Th(t).ops)
           m == under_lock(dev_cache[eth_port][1], o)
       IN  dev_cache' = [dev_cache EXCEPT ![eth_port] = <<m.c>>]
    /\ lock' = "none"
    /\ ThNext(t, [Th(t) EXCEPT !.pc = "ops", !.ops = Tail(@)])
    /\ UNCHANGED <<wq, sysq, nevents, rtnl, client, items>>
    /\ LifeFrame

\* roce_gid_cache_set_default_gid: ib_dev->cache.roce_gid_cache[port - 1] is read
\* whatever roce_gid_cache is; on a NULL array the read is of address 0 and the worker
\* dies in it (oops) or reads NULL there
LfSetDefault(t, outcome) ==
    /\ Th(t).pc = "ops" /\ Th(t).ops # <<>>
    /\ Head(Th(t).ops).op = "set_default_gid"
    /\ LET o == Head(Th(t).ops)
       IN  IF dev_cache = <<>>
           THEN /\ ThNext(t, IF outcome = "oops" THEN [Th(t) EXCEPT !.pc = "oops"]
                             ELSE [Th(t) EXCEPT !.ops = Tail(@)])
                /\ UNCHANGED dev_cache
           ELSE LET m == roce_gid_cache_set_default_gid(
                             Run(dev_cache[eth_port][1], FailAt(0)), o.attr.ndev,
                             gid_type_mask_support(pattr))
                IN  /\ outcome = "null"
                    /\ dev_cache' = [dev_cache EXCEPT ![eth_port] = <<m.c>>]
                    /\ ThNext(t, [Th(t) EXCEPT !.ops = Tail(@)])
    /\ UNCHANGED <<wq, sysq, nevents, lock, rtnl, client, items>>
    /\ LifeFrame

\* queue_update_gid_work: roce_gid_cache_is_active, kmalloc, dev_hold, queue_work
LfQueue(t, alloc_ok) ==
    /\ Th(t).pc = "ops" /\ Th(t).ops # <<>>
    /\ Head(Th(t).ops).op = "queue_update_gid_work"
    /\ LET o == Head(Th(t).ops)
           active == roce_gid_cache_is_active(dev_cache, eth_port)
       IN  IF active /\ alloc_ok
           THEN /\ wq' = Append(wq, Len(items) + 1)
                /\ items' = Append(items,
                                   NewItem(GidWork(GID_ADD, o.gid, o.attr.ndev), TRUE))
           ELSE UNCHANGED <<wq, items>>
    /\ ThNext(t, [Th(t) EXCEPT !.ops = Tail(@)])
    /\ UNCHANGED <<sysq, nevents, lock, rtnl, dev_cache, client>>
    /\ LifeFrame

\* the section is over: rtnl_unlock
LfLeave(t) ==
    /\ Th(t).pc = "ops" /\ Th(t).ops = <<>>
    /\ rtnl' = IF TakesRtnl(Th(t).work) THEN "none" ELSE rtnl
    /\ ThNext(t, [Th(t) EXCEPT !.i = @ + 1,
                               !.pc = IF Th(t).i + 1 > Sections(Th(t).work)
                                      THEN "put" ELSE "section"])
    /\ UNCHANGED <<wq, sysq, nevents, lock, dev_cache, client, items>>
    /\ LifeFrame

\* dev_put of the interface of the work item, kfree of the work item
LfPut(t) ==
    /\ Th(t).pc = "put"
    /\ items' = [items EXCEPT ![Th(t).id].state = "freed", ![Th(t).id].held = FALSE,
                              ![Th(t).id].work = NoWork]
    /\ ThNext(t, IdleHandler)
    /\ UNCHANGED <<wq, sysq, nevents, lock, rtnl, dev_cache, client>>
    /\ LifeFrame

\* the work items flush_workqueue waits for: those queued or running when it is called
Pending(rescan) ==
    {k \in DOMAIN items : /\ (items[k].work.kind = "rescan") = rescan
                          /\ items[k].state \in {"queued", "running"}}
Flushed == \A k \in client.wait : items[k].state = "freed"

\* ib_unregister_device calls the remove callback of the client:
\* roce_gid_cache_set_active_state(ib_dev, 0), then flush_workqueue(roce_gid_mgmt_wq)
LifeSetInactive ==
    /\ client.pc = "attached"
    /\ dev_cache' = roce_gid_cache_set_active_state(dev_cache, FALSE)
    /\ client' = [client EXCEPT !.pc = "flush_mgmt", !.wait = Pending(FALSE)]
    /\ UNCHANGED <<wq, sysq, nevents, wk, sy, lock, rtnl, items>>
    /\ LifeFrame
\* flush_workqueue(roce_gid_mgmt_wq) returns; flush_workqueue(system_wq)
LifeFlushedMgmt ==
    /\ client.pc = "flush_mgmt"
    /\ Flushed
    /\ client' = [client EXCEPT !.pc = "flush_sys", !.wait = Pending(TRUE)]
    /\ UNCHANGED <<wq, sysq, nevents, wk, sy, lock, rtnl, dev_cache, items>>
    /\ LifeFrame
\* flush_workqueue(system_wq) returns
LifeFlushedSys ==
    /\ client.pc = "flush_sys"
    /\ Flushed
    /\ client' = [client EXCEPT !.pc = "flushed", !.wait = {}]
    /\ UNCHANGED <<wq, sysq, nevents, wk, sy, lock, rtnl, dev_cache, items>>
    /\ LifeFrame
\* roce_gid_cache_cleanup_one, and the remove callback returns
LifeCleanup ==
    /\ client.pc = "flushed"
    /\ dev_cache' = roce_gid_cache_cleanup_one(dev_cache)
    /\ client' = [client EXCEPT !.pc = "detached"]
    /\ UNCHANGED <<wq, sysq, nevents, wk, sy, lock, rtnl, items>>
    /\ LifeFrame

LifeThreads == {"wq_worker", "sys_worker"}
\* what the read of address 0 can do to the thread
NullReads == {"oops", "null"}

\* the device is not registered yet; the interface of the port has one IPv4 and one IPv6
\* address
InitLife ==
    /\ NoRefs
    /\ cache = EmptyCache(TblSz)
    /\ dev_addr = [n \in NetDevs |-> 1]
    /\ last = NoCall
    /\ story = NoStory
    /\ ref = [orig |-> {}, exact |-> {}]
    /\ nwrites = 0
    /\ reg_state = [n \in NetDevs |-> NETREG_REGISTERED]
    /\ in4 = [n \in NetDevs |-> IF n = port_netdev THEN Ip4s ELSE {}]
    /\ in6 = [n \in NetDevs |-> IF n = port_netdev THEN Ip6s ELSE {}]
    /\ pattr = [err |-> 0, port_cap_flags |-> {IB_PORT_ROCE}]
    /\ wq = <<>>
    /\ sysq = 0
    /\ made_for = [i \in 0 .. (TblSz - 1) |-> NULL]
    /\ e1_seen = {}
    /\ unreg_done = {}
    /\ done = NoneDone
    /\ nevents = 0
    /\ nfail = 0
    /\ wk = IdleHandler
    /\ sy = IdleHandler
    /\ rd = IdleReader
    /\ lock = "none"
    /\ rtnl = "none"
    /\ stored = [i \in 0 .. (TblSz - 1) |-> {<<zgid, zattr>>}]
    /\ dev_cache = <<>>
    /\ client = [pc |-> "unattached", cfg |-> [modify_gid |-> TRUE, fail |-> 0], wait |-> {}]
    /\ items = <<>>

NextLife ==
    \/ \E cfg \in AttachCfgs : LifeAttach(cfg)
    \/ \E event \in {"NETDEV_UP", "NETDEV_CHANGEADDR"}, alloc_ok \in BOOLEAN :
          LifeNetdevEvent(event, alloc_ok)
    \/ \E event \in {"NETDEV_UP", "NETDEV_DOWN"}, s_addr \in Ip4s, alloc_ok \in BOOLEAN :
          LifeAddrEvent(event, s_addr, alloc_ok)
    \/ \E t \in LifeThreads : LfTake(t)
    \/ \E t \in LifeThreads : LfEnter(t)
    \/ \E t \in LifeThreads : LfCall(t)
    \/ \E t \in LifeThreads : LfLocked(t)
    \/ \E t \in LifeThreads, outcome \in NullReads : LfSetDefault(t, outcome)
    \/ \E t \in LifeThreads, alloc_ok \in BOOLEAN : LfQueue(t, alloc_ok)
    \/ \E t \in LifeThreads : LfLeave(t)
    \/ \E t \in LifeThreads : LfPut(t)
    \/ LifeSetInactive
    \/ LifeFlushedMgmt
    \/ LifeFlushedSys
    \/ LifeCleanup

SpecLife == InitLife /\ [][NextLife]_vars

(***************************************************************************)
(* Properties of the operations on a table that is not active, or on a     *)
(* device without cache (SpecLife).                                        *)
(***************************************************************************)
\* thread t is about to call a cache operation, and which
Calls(t) == Th(t).pc = "ops" /\ Th(t).ops # <<>>
NextOp(t) == Head(Th(t).ops)
\* the operations of the cache among those a handler makes
CacheOps == {"add", "del", "del_all_netdev_gids", "set_default_gid"}

\* C12: an operation (roce_add_gid, roce_del_gid, roce_del_all_netdev_gids,
\* roce_gid_cache_get_gid, roce_gid_cache_set_default_gid) called on a table whose active
\* flag is 0 returns -ENOSYS before anything else, and no slot of the table changes.
C12_InactiveTableRefuses ==
    [][TableState(dev_cache, eth_port) = "inactive"
       => /\ \A index \in 0 .. TblSz :
                roce_gid_cache_get_gid(dev_cache[eth_port][1], index).ret = -ENOSYS
          /\ \A t \in LifeThreads :
                (Calls(t) /\ NextOp(t).op \in CacheOps /\ Th(t)' # Th(t))
                => /\ NextOp(t).op # "set_default_gid"
                         => early_return(dev_cache, eth_port, NextOp(t)) = <<-ENOSYS>>
                   /\ dev_cache' = dev_cache]_vars

\* roce_gid_cache_get_gid and roce_gid_cache_find_gid from their first line: the value
\* returned for the device
get_gid_of_dev(arr, port, index) ==
    IF arr = <<>> THEN -EINVAL ELSE roce_gid_cache_get_gid(arr[port][1], index).ret
find_gid_of_dev(arr, gid, gid_type) ==
    IF arr = <<>> THEN -ENOENT
    ELSE roce_gid_cache_find_gid(arr[eth_port][1], gid, gid_type).ret

\* C13: while the device has no cache (ib_dev->cache.roce_gid_cache is NULL: the attach
\* failed or was rolled back, or the cache is torn down) every operation called for the
\* device returns an error or does nothing (roce_add_gid -ENOSYS, roce_del_gid and
\* roce_del_all_netdev_gids 0, roce_gid_cache_get_gid -EINVAL, roce_gid_cache_find_gid
\* -ENOENT, roce_gid_cache_is_active false, roce_gid_cache_set_default_gid nothing) and
\* none of them dereferences the NULL pointer: no caller dies in the call.
C13_AbsentCacheIsNotReady ==
    [][dev_cache = <<>>
       => /\ \A index \in 0 .. TblSz : get_gid_of_dev(dev_cache, eth_port, index) = -EINVAL
          /\ \A gid \in ReadGids, gid_type \in GidTypes :
                find_gid_of_dev(dev_cache, gid, gid_type) = -ENOENT
          /\ ~roce_gid_cache_is_active(dev_cache, eth_port)
          /\ \A t \in LifeThreads :
                (Calls(t) /\ NextOp(t).op \in CacheOps /\ Th(t)' # Th(t))
                => /\ NextOp(t).op # "set_default_gid"
                         => early_return(dev_cache, eth_port, NextOp(t))
                               \in {<<-ENOSYS>>, <<0>>}
                   /\ Th(t)'.pc # "oops"
                   /\ dev_cache' = <<>>]_vars

(***************************************************************************)
(* SpecSeq: the sequence number of a slot over many writes.  One writer    *)
(* adds and deletes one gid under cache->lock, write_gid one access at a   *)
(* time; a reader calls roce_gid_cache_get_gid.  The counter has SeqBits   *)
(* bits, so that it wraps within the run.                                  *)
(***************************************************************************)
\* the gid the writer adds and deletes, and its attributes
SeqGid == ip4_to_gid(Min(Ip4s))
SeqAttr == [gid_type |-> IB_GID_TYPE_IB, ndev |-> NULL]

InitSeq ==
    /\ NoEvents
    /\ NoThreads
    /\ NoDevice
    /\ NoRefs
    /\ cache = EmptyCache(SeqTblSz)
    /\ dev_addr = [n \in NetDevs |-> 1]
    /\ last = NoCall
    /\ story = NoStory
    /\ ref = [orig |-> {}, exact |-> {}]
    /\ nwrites = 0

SeqFrame == UNCHANGED <<dev_addr, story, ref, nwrites, netVars, evtVars, sy, rd, rtnl,
                        lifeVars, refVars>>

\* roce_add_gid up to write_gid: the lock is taken, the gid is not there, a slot is free
SqAdd(gid, attr) ==
    /\ wk.pc = "idle" /\ lock = "none" /\ cache.active
    /\ find_gid(cache, gid, attr, roce_gid_type_msk) < 0
    /\ find_gid(cache, zgid, zattr, zattr) >= 0
    /\ lock' = "wq_worker"
    /\ wk' = CallWrite(IdleWriter, find_gid(cache, zgid, zattr, zattr), gid, attr, "unlock")
    /\ UNCHANGED <<cache, stored, last>>
    /\ SeqFrame
\* roce_del_gid up to write_gid: the lock is taken, the gid is there
SqDel(gid, attr) ==
    /\ wk.pc = "idle" /\ lock = "none" /\ cache.active
    /\ find_gid(cache, gid, attr, roce_gid_type_netdev_msk) >= 0
    /\ lock' = "wq_worker"
    /\ wk' = CallWrite(IdleWriter, find_gid(cache, gid, attr, roce_gid_type_netdev_msk),
                       zgid, zattr, "unlock")
    /\ UNCHANGED <<cache, stored, last>>
    /\ SeqFrame
\* one access of write_gid; ret is what modify_gid returns
SqWrite(ret) ==
    /\ InWrite(wk)
    /\ LET r == wg_step(wk, cache, stored, ret)
       IN  wk' = r.t /\ cache' = r.c /\ stored' = r.st
    /\ UNCHANGED <<lock, last>>
    /\ SeqFrame
\* mutex_unlock, and the call returns ret, which write_gid's return value was not
\* assigned to
SqUnlock ==
    /\ wk.pc = "unlock"
    /\ lock' = "none"
    /\ wk' = IdleWriter
    /\ last' = [NoCall EXCEPT !.op = IF wk.gid = zgid THEN "del" ELSE "add",
                              !.ret = 0, !.nwr = 1, !.okw = wk.events]
    /\ UNCHANGED <<cache, stored>>
    /\ SeqFrame

NextSeq ==
    \/ SqAdd(SeqGid, SeqAttr)
    \/ SqDel(SeqGid, SeqAttr)
    \/ \E ret \in (IF wk.pc = "wg_invalidate" THEN ModifyRets ELSE {0}) : SqWrite(ret)
    \/ SqUnlock
    \/ \E index \in (-1) .. SeqTblSz : RdGetCall(index)
    \/ RdGet
    \/ RdReturn

SpecSeq == InitSeq /\ [][NextSeq]_vars

(***************************************************************************)
(* Properties of the sequence number (SpecSeq).                            *)
(***************************************************************************)
\* a write to slot i is in progress
WriteInProgress(i) == InWrite(wk) /\ wk.ix = i
\* the reader's roce_gid_cache_get_gid returns in this step, after the second read of seq
GetReturns == rd.pc = "gg_check" /\ rd'.pc = "done"

\* C14: roce_gid_cache_get_gid(index) on an active table takes no lock and waits for
\* nothing; it returns -EINVAL when index < 0 or index >= cache->sz; it returns -EAGAIN
\* exactly when the seq read before the copy is -1 or differs from the seq read after the
\* copy, and the copied gid and attributes otherwise; when no write to the slot is in
\* progress and none came between the two reads of seq, it succeeds.
C14_GetProtocol ==
    [][/\ rd' # rd => lock' = lock
       /\ (rd'.pc = "done" /\ rd.pc = "idle" /\ cache.active)
             => (rd'.ret = -EINVAL <=> (rd'.index < 0 \/ rd'.index >= cache.sz))
       /\ GetReturns
             => LET seq2 == cache.data_vec[rd.index].seq
                IN  /\ rd'.ret = -EAGAIN <=> (rd.orig_seq = SeqInvalid \/ rd.orig_seq # seq2)
                    /\ rd'.ret # -EAGAIN
                          => rd'.ret = 0 /\ rd'.l_gid = rd.l_gid /\ rd'.l_attr = rd.l_attr
                    /\ (~WriteInProgress(rd.index) /\ rd.orig_seq = seq2) => rd'.ret = 0]_vars

\* C19: the seq of a slot is even and is not -1 whenever no write to the slot is in
\* progress, wrap-around of the counter included, and a complete write_gid leaves a seq
\* that differs from the one the slot had before it.
C19_VersionDiscipline ==
    [][/\ \A i \in Slots(cache) :
             /\ ~WriteInProgress(i)
                   => cache.data_vec[i].seq % 2 = 0 /\ cache.data_vec[i].seq # SeqInvalid
             /\ ~WriteInProgress(i)'
                   => cache'.data_vec[i].seq % 2 = 0 /\ cache'.data_vec[i].seq # SeqInvalid
       /\ (wk.pc = "wg_publish" /\ wk'.pc # "wg_publish")
             => cache'.data_vec[wk.ix].seq # wk.orig_seq]_vars

(***************************************************************************)
(* Properties of attach and detach (SpecLife).                             *)
(***************************************************************************)
\* the table of port p is allocated, is active
Allocated(p) == dev_cache # <<>> /\ dev_cache[p] # <<>>
Active(p) == Allocated(p) /\ dev_cache[p][1].active
DevPorts == 1 .. phys_port_cnt
\* an allocation of the attach failed: the kcalloc of the array, the allocation of the
\* table of a port, or the kzalloc of the rescan work
AttachFailed == client.pc # "unattached" /\ client.cfg.modify_gid /\ client.cfg.fail # 0

\* C15: a table of the device is active only if the table of every port of the device is
\* allocated; when an allocation of the attach failed (of the table of a port, or of the
\* rescan work) the tables allocated before it are freed, the device has no cache
\* (roce_gid_cache is NULL) and no table of it is active in any later state.
C15_ActivationAllOrNothing ==
    /\ (\E p \in DevPorts : Active(p)) => \A p \in DevPorts : Allocated(p)
    /\ AttachFailed => dev_cache = <<>> /\ \A p \in DevPorts : ~Active(p)
\* the allocation of the table of the last port failed after the tables of the ports
\* before it were allocated, and a handler has run since
C15_Witness ==
    /\ AttachFailed
    /\ client.cfg.fail = 1 + phys_port_cnt
    /\ dev_cache = <<>>
    /\ \E k \in DOMAIN items : items[k].state = "freed"

\* the remove callback has set the tables inactive and both flush_workqueue calls have
\* returned
InactiveAndFlushed == client.pc \in {"flushed", "detached"}

\* C16: once roce_gid_cache_client_cleanup_one has set the tables of the device inactive
\* and flushed roce_gid_mgmt_wq and system_wq, no slot of a table of the device is
\* written (by a work item queued before or after the flush, by
\* roce_gid_cache_set_default_gid or by any other operation), and nothing reads or writes
\* the storage of the tables once roce_gid_cache_cleanup_one has freed it.
C16_NoWriteAfterFlush ==
    [][InactiveAndFlushed
       => /\ dev_cache' # <<>> => dev_cache' = dev_cache
          /\ \A t \in LifeThreads : Th(t)'.pc = "oops" => Th(t).pc = "oops"]_vars

(***************************************************************************)
(* A write whose modify_gid fails (SpecSeq).                               *)
(***************************************************************************)
\* write_gid makes its last access to slot wk.ix in this step, after modify_gid failed
FailedWriteEnds == wk.pc = "wg_publish" /\ wk.ret # 0 /\ wk'.pc = "unlock"
\* the roce_add_gid or roce_del_gid whose write_gid failed returns in this step
FailedCallReturns == wk.pc = "unlock" /\ wk.ret # 0 /\ wk'.pc = "idle"

\* C17: when modify_gid fails in write_gid, the slot is left with zgid, zattr and a NULL
\* context and with a seq that is not -1, write_gid dispatches no IB_EVENT_GID_CHANGE,
\* and the roce_add_gid or roce_del_gid that called it returns 0.
C17_FailedWriteEmptiesSlot ==
    [][/\ FailedWriteEnds
             => /\ cache'.data_vec[wk.ix].gid = zgid
                /\ cache'.data_vec[wk.ix].attr = zattr
                /\ cache'.data_vec[wk.ix].context = NULL
                /\ cache'.data_vec[wk.ix].seq # SeqInvalid
                /\ wk'.events = 0
       /\ FailedCallReturns
             => /\ last'.op \in {"add", "del"} /\ last'.ret = 0 /\ last'.okw = 0
                /\ cache'.data_vec[wk.ix] = cache.data_vec[wk.ix]]_vars

(***************************************************************************)
(* SpecLive: SpecLife with the threads scheduled.  A worker of a workqueue *)
(* that can take a step takes one (it takes the next work item, makes the  *)
(* next step of the handler), a worker that waits for the rtnl lock or for *)
(* cache->lock gets it when the lock is free again and again (the waiters  *)
(* of a mutex are served in turn), and the thread in the remove callback   *)
(* goes on when the flush is over.  Nothing is assumed of the              *)
(* notifications nor of the moment the device is registered or             *)
(* unregistered.                                                           *)
(***************************************************************************)
\* a step of worker t
WorkerStep(t) ==
    \/ LfTake(t)
    \/ LfEnter(t)
    \/ LfCall(t)
    \/ LfLocked(t)
    \/ \E outcome \in NullReads : LfSetDefault(t, outcome)
    \/ \E alloc_ok \in BOOLEAN : LfQueue(t, alloc_ok)
    \/ LfLeave(t)
    \/ LfPut(t)
\* a step of roce_gid_cache_client_cleanup_one after it has set the tables inactive
DetachStep == LifeFlushedMgmt \/ LifeFlushedSys \/ LifeCleanup

SpecLive ==
    /\ InitLife
    /\ [][NextLife]_vars
    /\ \A t \in LifeThreads : WF_vars(WorkerStep(t))
    /\ \A t \in LifeThreads : SF_vars(LfEnter(t)) /\ SF_vars(LfCall(t))
    /\ WF_vars(DetachStep)

\* no run has more work items than this
MaxItems == 3 * (MaxLifeEvents + 1)
\* work item k was queued, and is not freed yet
Enqueued(k) == k \in DOMAIN items /\ items[k].state # "freed"
\* work item k was executed once and freed, and the reference to the interface taken
\* when it was queued is released
Completed(k) ==
    /\ k \in DOMAIN items
    /\ items[k].state = "freed"
    /\ items[k].execs = 1
    /\ ~items[k].held
\* worker t waits for the rtnl lock, for cache->lock
WaitsRtnl(t) == Th(t).pc = "section" /\ TakesRtnl(Th(t).work)
WaitsLock(t) ==
    /\ Th(t).pc = "ops" /\ Th(t).ops # <<>>
    /\ Head(Th(t).ops).op \in {"add", "del", "del_all_netdev_gids"}
    /\ early_return(dev_cache, eth_port, Head(Th(t).ops)) = <<>>
\* the remove callback waits in a flush_workqueue
Flushing == client.pc \in {"flush_mgmt", "flush_sys"}

\* C18: with the workers and the lock holders scheduled, every work item that was
\* queued is eventually executed once and freed and its interface reference released;
\* no worker waits for the rtnl lock or for cache->lock forever, and the remove callback
\* does not wait in flush_workqueue forever.
C18_WorkCompletes ==
    /\ \A k \in 1 .. MaxItems : Enqueued(k) ~> Completed(k)
    /\ \A t \in LifeThreads : []<>~(WaitsRtnl(t) \/ WaitsLock(t))
    /\ []<>~Flushing

(***************************************************************************)
(* The work items in parallel (SpecConc).                                  *)
(***************************************************************************)
\* thread t is in the handler of a work item
Executing(t) == t.pc # "idle"
\* this step of the worker of roce_gid_mgmt_wq, of the worker of system_wq, stores into
\* the table
WkMutates == wk' # wk /\ cache' # cache
SyMutates == sy' # sy /\ cache' # cache

\* C20: the handlers of the work items do not run in parallel: update_gid_work_handler
\* or update_gid_event_work_handler on roce_gid_mgmt_wq and roce_rescan_devices are
\* never executing at the same time, so that no store of one work item into the table
\* comes between the start and the end of another work item.
C20_OneWorkItemAtATime ==
    [][/\ ~(Executing(wk) /\ Executing(sy))
       /\ ~(Executing(wk)' /\ Executing(sy)')
       /\ WkMutates => ~Executing(sy)
       /\ SyMutates => ~Executing(wk)]_vars

(***************************************************************************)
(* Properties of roce_gid_cache_set_default_gid (Spec).                    *)
(***************************************************************************)
\* the gid types of gid_type_mask from i on, lowest first
RECURSIVE KindsFrom(_, _)
KindsFrom(i, gid_type_mask) ==
    IF i >= IB_GID_TYPE_SIZE THEN <<>>
    ELSE IF HasBit(gid_type_mask, i) THEN <<i>> \o KindsFrom(i + 1, gid_type_mask)
    ELSE KindsFrom(i + 1, gid_type_mask)
\* what becomes of every gid type of kinds when the modify_gid calls return rets, one
\* after the other: the write of zgid fails, the write of the default gid fails, or
\* both succeed
RECURSIVE KindResults(_, _)
KindResults(kinds, rets) ==
    IF kinds = <<>> THEN <<>>
    ELSE IF rets[1] # 0 THEN <<"clear_failed">> \o KindResults(Tail(kinds), Tail(rets))
    ELSE IF rets[2] # 0
    THEN <<"store_failed">> \o KindResults(Tail(kinds), Tail(Tail(rets)))
    ELSE <<"ok">> \o KindResults(Tail(kinds), Tail(Tail(rets)))
\* the gid types of kinds that res has as "ok", in the order of kinds
RECURSIVE Stored(_, _)
Stored(kinds, res) ==
    IF kinds = <<>> THEN <<>>
    ELSE (IF Head(res) = "ok" THEN <<Head(kinds)>> ELSE <<>>)
            \o Stored(Tail(kinds), Tail(res))
\* the write_gid calls a visit of every gid type makes
RECURSIVE Attempts(_)
Attempts(res) ==
    IF res = <<>> THEN 0
    ELSE (IF Head(res) = "clear_failed" THEN 1 ELSE 2) + Attempts(Tail(res))
\* a gid type failed after the last one that was stored
FailedLast(res) ==
    \E j \in DOMAIN res :
       res[j] # "ok" /\ \A k \in DOMAIN res : k > j => res[k] # "ok"

\* C21: roce_gid_cache_set_default_gid(ndev, gid_type_mask) visits the gid types of the
\* mask lowest first, at a slot index that starts at 0 and goes up only after both the
\* write of zgid and the write of the default gid of a type succeeded.  With modify_gid
\* never failing and k types in the mask, slots 0 .. k-1 then hold the default gid of
\* ndev with those types in ascending order and ndev, whatever they held, and the other
\* slots are as before.  When modify_gid fails for a type, every later type is still
\* visited (both of its writes are made), at the same slot index: the types stored are
\* in slots 0 .. n-1 in ascending order, slot n is empty when a type failed after the
\* last one stored, and the slots behind are as before.
C21_SetDefaultVisitsEveryKind ==
    [][last'.op = "set_default" =>
         \A ndev \in NDevs, mask \in TypeMasks, rets \in Outcomes(2 * IB_GID_TYPE_SIZE) :
            SetDefault(ndev, mask, rets)
            => LET kinds == KindsFrom(0, mask)
                   res == KindResults(kinds, rets)
                   st == Stored(kinds, res)
                   n == Len(st)
               IN  /\ last'.nwr = Attempts(res)
                   /\ \A j \in 0 .. (n - 1) :
                         /\ cache'.data_vec[j].gid = make_default_gid(ndev)
                         /\ cache'.data_vec[j].attr = [gid_type |-> st[j + 1], ndev |-> ndev]
                   /\ FailedLast(res)
                         => /\ cache'.data_vec[n].gid = zgid
                            /\ cache'.data_vec[n].attr = zattr
                   /\ \A j \in Slots(cache) :
                         (j > n \/ (j = n /\ ~FailedLast(res)))
                         => /\ cache'.data_vec[j].gid = cache.data_vec[j].gid
                            /\ cache'.data_vec[j].attr = cache.data_vec[j].attr
                   /\ (\A k \in DOMAIN rets : rets[k] = 0) => n = Len(kinds)]_vars
\* both gid types were asked for; modify_gid failed in the write of zgid of the first
\* type, and the second type was stored at slot 0
C21_Witness ==
    /\ last.op = "set_default" /\ last.nwr = 3 /\ last.okw = 2
    /\ cache.data_vec[0].gid = make_default_gid(port_netdev)
    /\ cache.data_vec[0].attr = [gid_type |-> IB_GID_TYPE_SIZE - 1, ndev |-> port_netdev]
    /\ cache.data_vec[1].gid = zgid

(***************************************************************************)
(* SpecHold: the calls of Spec, and the release of the table at the end.   *)
(***************************************************************************)
\* free_roce_gid_cache: dev_put for every slot that names a net_device, from slot i on
RECURSIVE free_from(_, _, _)
free_from(h, c, i) ==
    IF i >= c.sz THEN h
    ELSE IF c.data_vec[i].attr.ndev # NULL
    THEN free_from([h EXCEPT ![c.data_vec[i].attr.ndev] = @ - 1], c, i + 1)
    ELSE free_from(h, c, i + 1)
free_roce_gid_cache(h, c) == free_from(h, c, 0)

\* roce_gid_cache_cleanup_one: the table is freed, no call follows
FreeTable ==
    /\ client.pc = "attached"
    /\ refcnt' = free_roce_gid_cache(refcnt, cache)
    /\ cache' = [EmptyCache(0) EXCEPT !.active = FALSE]
    /\ client' = [client EXCEPT !.pc = "detached"]
    /\ UNCHANGED <<dev_addr, last, story, ref, nwrites, netVars, evtVars, concVars,
                   dev_cache, items, rcu>>

NextHold ==
    \/ client.pc = "attached" /\ Next
    \/ FreeTable

SpecHold == Init /\ [][NextHold]_vars

\* the slots of table c that name net_device n
SlotsOf(c, n) == {i \in Slots(c) : c.data_vec[i].attr.ndev = n}

\* C23: after every sequence of roce_add_gid, roce_del_gid, roce_del_all_netdev_gids and
\* roce_gid_cache_set_default_gid calls, whatever modify_gid returned in them, the
\* references the cache holds to a net_device (its dev_hold calls less the dev_put
\* calls it made, those handed to call_rcu counted as made) are as many as the slots
\* that name the net_device; free_roce_gid_cache makes one dev_put for every such slot,
\* so that the cache holds no reference once the table is freed.
C23_ReferenceBalance ==
    /\ client.pc = "attached"
          => \A n \in NetDevs : refcnt[n] = Cardinality(SlotsOf(cache, n))
    /\ client.pc = "detached" => \A n \in NetDevs : refcnt[n] = 0
\* the table was freed after MaxWrites writes, modify_gid having failed in the last
\* call that wrote
C23_Witness ==
    /\ client.pc = "detached"
    /\ nwrites = MaxWrites
    /\ last.nwr > last.okw
    /\ \A n \in NetDevs : refcnt[n] = 0

(***************************************************************************)
(* Uniqueness of the stored gids (Spec).                                   *)
(***************************************************************************)
\* slots i and j of table c hold the same gid, not the zero gid, with the same gid type
SameGidAndType(c, i, j) ==
    /\ c.data_vec[i].gid # zgid
    /\ c.data_vec[i].gid = c.data_vec[j].gid
    /\ c.data_vec[i].attr.gid_type = c.data_vec[j].attr.gid_type

\* C24: after every sequence of roce_add_gid, roce_del_gid, roce_del_all_netdev_gids and
\* roce_gid_cache_set_default_gid calls on one table, no two slots hold the same gid,
\* other than the zero gid, with the same gid type.
C24_NoDuplicateSlots ==
    \A i, j \in Slots(cache) : i # j => ~SameGidAndType(cache, i, j)

(***************************************************************************)
(* Removal of an enumerated address (SpecEvt).                             *)
(***************************************************************************)
\* the slots of table c that hold gid
SlotsWith(c, gid) == {i \in Slots(c) : c.data_vec[i].gid = gid}
\* gid is in table c as enum_netdev_ipv4_ips stored it in a run for interface x
\* (update_gid_ip leaves the net_device of the attr NULL)
Enumerated(c, own, x, gid) ==
    \E i \in SlotsWith(c, gid) : own[i] = x /\ c.data_vec[i].attr.ndev = NULL

\* C25: when the gid of an IPv4 address A of interface X was stored by the enumeration
\* of X's addresses (a NETDEV_REGISTER or NETDEV_UP work item, or the rescan), then once
\* the work item of a NETDEV_DOWN address event of A on X has been handled no slot of
\* the table of X's port holds the gid of A, with any gid type.
C25_RemovalOfEnumeratedAddress ==
    [][(/\ Handles("update_gid_event_work")
        /\ Head(wq).gid_op = GID_DEL
        /\ Head(wq).gid \in {ip4_to_gid(a) : a \in Ip4s}
        /\ Enumerated(cache, made_for, Head(wq).ndev, Head(wq).gid))
       => SlotsWith(cache', Head(wq).gid) = {}]_vars

(***************************************************************************)
(* SpecRcu: the release of the net_device a slot named.  The worker of     *)
(* roce_gid_mgmt_wq handles the work of an address that is added and then  *)
(* removed, one access to the table or to a lock in a step, with the       *)
(* call_rcu or synchronize_rcu of write_gid as a step of its own; a reader *)
(* calls roce_gid_cache_get_gid; the put_ndev callbacks run when their     *)
(* grace period is over.                                                   *)
(***************************************************************************)
\* the reads of slot ix that reader r has in progress
InFlight(r, ix) ==
    IF r.pc \in {"gg_seq", "gg_copy_gid", "gg_copy_attr", "gg_check"} /\ r.index = ix
    THEN {r.n} ELSE {}

\* the readers a grace period that begins now waits for
rcu_read_side_none(r) == {}
\* the readers a grace period that begins now waits for: those that have a read of the
\* table in progress
rcu_read_side(r) == IF r.pc \in {"idle", "done"} THEN {} ELSE {r.n}
\* the grace period of cb is over: the readers it waits for have finished
GraceOver(cb) == cb.wait \cap rcu_read_side(rd) = {}

\* what call_rcu(&put_rcu->rcu, put_ndev), or synchronize_rcu, begins for old_net_dev;
\* began are the reads that were in progress when the write stored seq = -1, copied is
\* whether the write has copied the new attr into the slot since, and atcopy the reads
\* that were in progress when it did
RcuHead(old_net_dev, ix, sync, began) ==
    [ndev |-> old_net_dev, ix |-> ix, sync |-> sync, wait |-> rcu_read_side(rd),
     began |-> began, copied |-> FALSE, atcopy |-> {}]
RemoveAt(q, k) == SubSeq(q, 1, k - 1) \o SubSeq(q, k + 1, Len(q))
\* the write in progress has copied the attr
MarkCopied(q, r) ==
    [k \in DOMAIN q |->
        IF q[k].copied THEN q[k]
        ELSE [q[k] EXCEPT !.copied = TRUE, !.atcopy = InFlight(r, q[k].ix)]]

RcuFrame == UNCHANGED <<dev_addr, last, story, ref, nwrites, netVars, sysq, made_for,
                        e1_seen, unreg_done, done, nevents, lifeVars>>

\* one step of write_gid by the worker: ret is what modify_gid returns, put_rcu whether
\* the kmalloc of the dev_put_rcu succeeds
RcWrite(ret, put_rcu) ==
    /\ wk.pc \in WgPcs \cup {"wg_put_old", "wg_sync"}
    /\ LET old_net_dev == cache.data_vec[wk.ix].attr.ndev
           r == wg_step(wk, cache, stored, ret)
       IN  IF wk.pc = "wg_invalidate"
           THEN /\ wk' = [r.t EXCEPT !.pc = "wg_put_old", !.readers = InFlight(rd, wk.ix)]
                /\ cache' = r.c
                /\ UNCHANGED <<stored, refVars>>
           ELSE IF wk.pc = "wg_put_old"
           THEN /\ UNCHANGED <<cache, stored>>
                /\ IF old_net_dev = NULL \/ old_net_dev = wk.attr.ndev
                   THEN wk' = [wk EXCEPT !.pc = "wg_copy_gid"] /\ UNCHANGED refVars
                   ELSE IF put_rcu
                   THEN /\ rcu' = Append(rcu, RcuHead(old_net_dev, wk.ix, FALSE, wk.readers))
                        /\ refcnt' = wg_put_old(refcnt, old_net_dev, wk.attr)
                        /\ wk' = [wk EXCEPT !.pc = "wg_copy_gid"]
                   ELSE /\ rcu' = Append(rcu, RcuHead(old_net_dev, wk.ix, TRUE, wk.readers))
                        /\ wk' = [wk EXCEPT !.pc = "wg_sync"]
                        /\ UNCHANGED refcnt
           ELSE IF wk.pc = "wg_sync"
           THEN /\ GraceOver(rcu[Len(rcu)])
                /\ rcu' = RemoveAt(rcu, Len(rcu))
                /\ refcnt' = wg_put_old(refcnt, old_net_dev, wk.attr)
                /\ wk' = [wk EXCEPT !.pc = "wg_copy_gid"]
                /\ UNCHANGED <<cache, stored>>
           ELSE IF wk.pc = "wg_copy_attr"
           THEN /\ wk' = r.t /\ cache' = r.c /\ stored' = r.st
                /\ refcnt' = wg_hold_new(refcnt, old_net_dev, r.c.data_vec[wk.ix].attr.ndev)
                /\ rcu' = MarkCopied(rcu, rd)
           ELSE /\ wk' = r.t /\ cache' = r.c /\ stored' = r.st
                /\ UNCHANGED refVars
    /\ nfail' = IF ret # 0 THEN nfail + 1 ELSE nfail
    /\ UNCHANGED <<wq, sy, rd, lock, rtnl>>
    /\ RcuFrame

\* put_ndev runs: the grace period of the k-th callback is over
RcuRun(k) ==
    /\ k \in DOMAIN rcu
    /\ ~rcu[k].sync
    /\ GraceOver(rcu[k])
    /\ rcu' = RemoveAt(rcu, k)
    /\ UNCHANGED <<cache, wq, wk, sy, rd, lock, rtnl, stored, nfail, refcnt>>
    /\ RcuFrame

\* the kmalloc of the dev_put_rcu, where write_gid makes it
PutRcuChoices(t) == IF t.pc = "wg_put_old" THEN BOOLEAN ELSE {TRUE}

\* the table is active and empty; the work of an address of the port's interface that
\* was added and removed is queued
InitRcu ==
    /\ cache = EmptyCache(TblSz)
    /\ dev_addr = [n \in NetDevs |-> 1]
    /\ last = NoCall
    /\ story = NoStory
    /\ ref = [orig |-> {}, exact |-> {}]
    /\ nwrites = 0
    /\ reg_state = [n \in NetDevs |-> NETREG_REGISTERED]
    /\ in4 = [n \in NetDevs |-> {}]
    /\ in6 = [n \in NetDevs |-> {}]
    /\ wq \in {<<AddrWork(GID_ADD, ip6_to_gid(a), port_netdev, FALSE),
                  AddrWork(GID_DEL, ip6_to_gid(a), port_netdev, TRUE)>> : a \in Ip6s}
    /\ pattr = [err |-> 0, port_cap_flags |-> {IB_PORT_ROCE}]
    /\ sysq = 0
    /\ made_for = [i \in 0 .. (TblSz - 1) |-> NULL]
    /\ e1_seen = {}
    /\ unreg_done = {}
    /\ done = NoneDone
    /\ nevents = 0
    /\ nfail = 0
    /\ NoThreads
    /\ NoDevice
    /\ NoRefs

NextRcu ==
    \/ WkTake
    \/ WkLoop
    \/ WkFind
    \/ \E ret \in RetChoices(wk), put_rcu \in PutRcuChoices(wk) : RcWrite(ret, put_rcu)
    \/ WkUnlock
    \/ \E index \in 0 .. (TblSz - 1) : RdGetCall(index)
    \/ RdGet
    \/ RdReturn
    \/ \E k \in 1 .. MaxRcu : RcuRun(k)

SpecRcu == InitRcu /\ [][NextRcu]_vars

\* the reference of entry k of rcu is released in this step: put_ndev runs, or the
\* writer's synchronize_rcu returns and it calls dev_put
Released(k) == k \in DOMAIN rcu /\ rcu' = RemoveAt(rcu, k)
\* the reads of the slot that began before the write copied the new attr into it and
\* can still be in progress
BeganBeforeOverwrite(cb) ==
    cb.began \cup (IF cb.copied THEN cb.atcopy ELSE InFlight(rd, cb.ix))

====
